---- MODULE Spec2Model ----
(***************************************************************************)
(* Model of the RAG chat bot: the session store and the question handlers  *)
(* of the HTTP front end (main.py) and of the Telegram front end           *)
(* (telegram_bot.py), and the batch index build (build_index_local.py).    *)
(*                                                                         *)
(* Texts (questions, answers) are sequences of one-character strings.      *)
(* Every handler is a sequence of steps; req[p].pc is the position of      *)
(* handler p.  External calls (embedding check, index load, retrieval,     *)
(* chat completion, file and network writes) succeed or raise, chosen by   *)
(* the environment.                                                        *)
(***************************************************************************)
EXTENDS Integers, Sequences, FiniteSets, TLC

VARIABLES session_memories, session_last_activity, telegram_sessions,
          vectorstore, now, req, nreq, answered,
          bpc, texts, batch_size, db, cur, attempts, bresult,
          all_files, files_to_process, fidx, all_docs, error_files, chunk_store,
          load_log,
          mpc, args, local_dir, render_dir, exit_code, cp,
          admin, info, program, rb, th, loaded, call

sessVars == <<session_memories, session_last_activity, telegram_sessions>>
buildVars == <<bpc, texts, batch_size, db, cur, attempts, bresult>>
serviceVars == <<sessVars, vectorstore, now, req, nreq, answered>>
\* build_index: discovery and extraction of the files
ingestVars == <<all_files, files_to_process, fidx, all_docs, error_files, chunk_store,
                load_log>>
\* the script build_index_local.py and the two index directories
\* (local_dir is ./index, render_dir is /data), cp is the copy in progress
mainVars == <<mpc, args, local_dir, render_dir, exit_code, cp>>
\* the administration endpoints: the request in progress and the last
\* response of /index-info; program is the version of the service that
\* runs, rb the index lock, the handlers and the threads of
\* static/old_main.py, th the threads that run ask of original_local_code.py,
\* loaded the processes in which load_vectorstore has returned an index,
\* call the function of the build script that is applied on its own
extVars == <<admin, info, program, rb, th, loaded, call>>
restVars == <<ingestVars, mainVars, extVars>>
vars == <<session_memories, session_last_activity, telegram_sessions,
          vectorstore, now, req, nreq, answered,
          bpc, texts, batch_size, db, cur, attempts, bresult,
          all_files, files_to_process, fidx, all_docs, error_files, chunk_store,
          load_log,
          mpc, args, local_dir, render_dir, exit_code, cp,
          admin, info, program, rb, th, loaded, call>>

(***************************************************************************)
(* Program constants                                                       *)
(***************************************************************************)
SESSION_MAX_AGE == 86400
HISTORY_LIMIT == 15
MAX_MESSAGE_LENGTH == 4096
BATCH_SIZE == 50
SMALLER_BATCH_SIZE == 20
MAX_FILE_SIZE == 52428800

(***************************************************************************)
(* Bounds of the model                                                     *)
(***************************************************************************)
MaxRequests == 2
MaxHistRequests == 17
MaxTime == 172802
MaxDocs == 1
MaxChunks == 61
MaxFiles == 2
MaxAdminRequests == 2
MaxThreadRequests == 1
MaxLines == 11
MaxParts == 2
MaxLockTime == 10801

(***************************************************************************)
(* Text helpers                                                            *)
(***************************************************************************)
Whitespace == {" "}

RECURSIVE lstrip(_)
lstrip(s) == IF s # <<>> /\ Head(s) \in Whitespace THEN lstrip(Tail(s)) ELSE s

RECURSIVE rstrip(_)
rstrip(s) == IF s # <<>> /\ s[Len(s)] \in Whitespace
             THEN rstrip(SubSeq(s, 1, Len(s) - 1)) ELSE s

strip(s) == rstrip(lstrip(s))

\* variant of is_blank: the question is not stripped before the test
is_blank_no_strip(q) == q = <<>>

\* main.py:439  `not q or len(q.strip()) == 0`
is_blank(q) == q = <<>> \/ Len(strip(q)) = 0

\* s[-n:] of Python for n > 0
LastN(s, n) == IF Len(s) <= n THEN s ELSE SubSeq(s, Len(s) - n + 1, Len(s))

Restrict(f, S) == [x \in (DOMAIN f) \ S |-> f[x]]

Put(f, k, v) == [x \in (DOMAIN f) \cup {k} |-> IF x = k THEN v ELSE f[x]]

RECURSIVE join_questions(_)
\* " ".join([qa[0] for qa in pairs])
join_questions(pairs) ==
    IF pairs = <<>> THEN <<>>
    ELSE IF Len(pairs) = 1 THEN pairs[1][1]
    ELSE pairs[1][1] \o <<" ">> \o join_questions(Tail(pairs))

\* variant of enhanced_query: the questions of the last three pairs
enhanced_query_last_three(chat_history, q) ==
    LET recent_dialogue == IF chat_history # <<>>
                           THEN join_questions(LastN(chat_history, 3))
                           ELSE <<>>
    IN IF recent_dialogue # <<>> THEN recent_dialogue \o <<" ">> \o q ELSE q

\* main.py:530-531
enhanced_query(chat_history, q) ==
    LET recent_dialogue == IF chat_history # <<>>
                           THEN join_questions(LastN(chat_history, 2))
                           ELSE <<>>
    IN IF recent_dialogue # <<>> THEN recent_dialogue \o <<" ">> \o q ELSE q

RECURSIVE dedup_titles(_, _)
\* main.py:658-665: one source entry per title, first-seen order
dedup_titles(docs, used) ==
    IF docs = <<>> THEN <<>>
    ELSE IF Head(docs) \in used THEN dedup_titles(Tail(docs), used)
    ELSE <<Head(docs)>> \o dedup_titles(Tail(docs), used \cup {Head(docs)})

(***************************************************************************)
(* Session store                                                           *)
(***************************************************************************)
\* variant of expired_sessions: a session expires at exactly SESSION_MAX_AGE
expired_sessions_at_limit(act, t) == {s \in DOMAIN act : t - act[s] >= SESSION_MAX_AGE}

\* main.py:205-208
expired_sessions(act, t) == {s \in DOMAIN act : t - act[s] > SESSION_MAX_AGE}

\* main.py:202-214: the two mappings after a cleanup pass at time t
clean_old_sessions(mem, act, t) ==
    LET expired == expired_sessions(act, t)
    IN [mem |-> Restrict(mem, expired), act |-> Restrict(act, expired)]

\* variant of append_truncate: the first 15 entries are kept (h[:15])
append_truncate_keep_first(history, pair) ==
    LET h == Append(history, pair)
    IN IF Len(h) > HISTORY_LIMIT THEN SubSeq(h, 1, HISTORY_LIMIT) ELSE h

\* main.py:653-655, telegram_bot.py:327-329: append, then keep the last 15
append_truncate(history, pair) ==
    LET h == Append(history, pair)
    IN IF Len(h) > HISTORY_LIMIT THEN LastN(h, HISTORY_LIMIT) ELSE h

(***************************************************************************)
(* Requests                                                                *)
(***************************************************************************)
Procs == {"http", "tg", "clear"}

NoPrompt == [dialog |-> <<>>, docs |-> <<>>, q |-> <<>>]
NoResp == [kind |-> "none", status |-> 0, answer |-> <<>>, sources |-> <<>>]

ReqIdle == [pc |-> "idle", q |-> <<>>, cookie |-> "", user |-> 0, sid |-> "",
            chat_history |-> <<>>, query |-> <<>>, docs |-> <<>>,
            prompt |-> NoPrompt, answer |-> <<>>, calls |-> <<>>,
            sent |-> <<>>, resp |-> NoResp, msgs |-> <<>>,
            stale |-> FALSE, cleaned |-> {}]

Resp(kind, status) == [kind |-> kind, status |-> status, answer |-> <<>>, sources |-> <<>>]

InFlight(p) == req[p].pc \notin {"idle", "done"}

Idle == \A p \in Procs : ~InFlight(p)

\* handler p moves to r; the record of a handler that has returned is kept
\* until the next request is taken
Step(p, r) ==
    req' = [x \in Procs |-> IF x = p THEN r
                            ELSE IF ~InFlight(p) /\ ~InFlight(x) THEN ReqIdle
                            ELSE req[x]]

\* the steps a handler has taken, each with its outcome
Call(r, api, ok) == Append(r.calls, [api |-> api, ok |-> ok])

\* the records of the handlers that have returned are dropped
Forget == req' = [x \in Procs |-> IF InFlight(x) THEN req[x] ELSE ReqIdle]

\* the session exists, with a history, and its last activity is too old
is_stale(sid) ==
    /\ sid \in DOMAIN session_last_activity
    /\ sid \in DOMAIN session_memories
    /\ session_memories[sid] # <<>>
    /\ now - session_last_activity[sid] > SESSION_MAX_AGE

UuidPool == <<"uuid1", "uuid2", "uuid3", "uuid4", "uuid5", "uuid6">>

\* main.py:451 str(uuid.uuid4()): a session id never handed out before
uuid4 == UuidPool[nreq]

(***************************************************************************)
(* POST /ask  (main.py:433-691)                                            *)
(***************************************************************************)
\* main.py:434-443: the request arrives; a blank question returns at once
ask_receive(p, q, cookie) ==
    /\ p = "http"
    /\ ~InFlight(p)
    /\ nreq' = nreq + 1
    /\ LET r == [ReqIdle EXCEPT !.q = q, !.cookie = cookie,
                                !.stale = (cookie # "" /\ is_stale(cookie))]
       IN IF is_blank(q)
          THEN Step(p, [r EXCEPT !.pc = "done", !.resp = Resp("prompt_input", 200)])
          ELSE Step(p, [r EXCEPT !.pc = "clean"])
    /\ UNCHANGED <<sessVars, vectorstore, now, answered, buildVars, restVars>>

\* main.py:447: clean_old_sessions()
ask_clean(p) ==
    /\ p = "http"
    /\ req[p].pc = "clean"
    /\ LET c == clean_old_sessions(session_memories, session_last_activity, now)
       IN /\ session_memories' = c.mem
          /\ session_last_activity' = c.act
          /\ answered' = Restrict(answered, (DOMAIN answered) \ (DOMAIN c.mem))
    /\ Step(p, [req[p] EXCEPT !.pc = "session",
                              !.calls = Call(req[p], "clean", TRUE),
                              !.cleaned = expired_sessions(session_last_activity, now)])
    /\ UNCHANGED <<telegram_sessions, vectorstore, now, nreq, buildVars, restVars>>

\* main.py:450-465: session id, cookie, history entry, last activity.
\* ok = FALSE: the step raises (response.set_cookie), caught at main.py:671
ask_session(p, ok) ==
    /\ p = "http"
    /\ req[p].pc = "session"
    /\ IF ok
       THEN LET sid == IF req[p].cookie = "" THEN uuid4 ELSE req[p].cookie
                mem == IF sid \notin DOMAIN session_memories
                       THEN Put(session_memories, sid, <<>>)
                       ELSE session_memories
            IN /\ session_memories' = mem
               /\ session_last_activity' = Put(session_last_activity, sid, now)
               /\ answered' = IF sid \notin DOMAIN session_memories
                              THEN Put(answered, sid, <<>>) ELSE answered
               /\ Step(p, [req[p] EXCEPT !.pc = "keys", !.sid = sid,
                                         !.calls = Call(req[p], "session", TRUE),
                                         !.chat_history = mem[sid]])
       ELSE /\ Step(p, [req[p] EXCEPT !.pc = "except",
                                      !.calls = Call(req[p], "session", FALSE)])
            /\ UNCHANGED <<session_memories, session_last_activity, answered>>
    /\ UNCHANGED <<telegram_sessions, vectorstore, now, nreq, buildVars, restVars>>

\* main.py:475-490: both API keys must be set in the environment
ask_keys(p, openai_api_key, anthropic_api_key) ==
    /\ p = "http"
    /\ req[p].pc = "keys"
    /\ LET r == [req[p] EXCEPT
                    !.calls = Call(req[p], "keys", openai_api_key /\ anthropic_api_key)]
       IN IF ~openai_api_key
          THEN Step(p, [r EXCEPT !.pc = "done", !.resp = Resp("no_openai_key", 500)])
          ELSE IF ~anthropic_api_key
          THEN Step(p, [r EXCEPT !.pc = "done", !.resp = Resp("no_anthropic_key", 500)])
          ELSE Step(p, [r EXCEPT !.pc = "embed_check"])
    /\ UNCHANGED <<sessVars, vectorstore, now, nreq, answered, buildVars, restVars>>

\* main.py:493-506: test call of the embedding API
ask_embed_check(p, ok) ==
    /\ p = "http"
    /\ req[p].pc = "embed_check"
    /\ LET r == [req[p] EXCEPT !.calls = Call(req[p], "embed_query", ok)]
       IN IF ok
          THEN Step(p, [r EXCEPT !.pc = "load"])
          ELSE Step(p, [r EXCEPT !.pc = "done", !.resp = Resp("embed_error", 500)])
    /\ UNCHANGED <<sessVars, vectorstore, now, nreq, answered, buildVars, restVars>>

\* main.py:509-520: load_vectorstore() on every request
ask_load(p, ok) ==
    /\ p = "http"
    /\ req[p].pc = "load"
    /\ LET r == [req[p] EXCEPT !.calls = Call(req[p], "load_vectorstore", ok)]
       IN IF ok
          THEN Step(p, [r EXCEPT !.pc = "retrieve"])
          ELSE Step(p, [r EXCEPT !.pc = "done", !.resp = Resp("index_error", 500)])
    /\ loaded' = IF ok THEN loaded \cup {p} ELSE loaded
    /\ UNCHANGED <<sessVars, vectorstore, now, nreq, answered, buildVars>>
    /\ UNCHANGED <<ingestVars, mainVars, admin, info, program, rb, th, call>>

\* variant of ask_retrieve: a raise of the retriever ends the request
ask_retrieve_abort(p, ok, found) ==
    /\ p = "http"
    /\ req[p].pc = "retrieve"
    /\ LET r == [req[p] EXCEPT !.query = enhanced_query(req[p].chat_history, req[p].q),
                               !.calls = Call(req[p], "retrieve", ok)]
       IN IF ok
          THEN Step(p, [r EXCEPT !.pc = "primary", !.docs = found,
                                 !.prompt = [dialog |-> r.chat_history,
                                             docs |-> found, q |-> r.q]])
          ELSE Step(p, [r EXCEPT !.pc = "done", !.resp = Resp("index_error", 500)])
    /\ UNCHANGED <<sessVars, vectorstore, now, nreq, answered, buildVars, restVars>>

\* variant of ask_retrieve: after a raise the documents of the retriever
\* are used all the same
ask_retrieve_keep_docs(p, ok, found) ==
    /\ p = "http"
    /\ req[p].pc = "retrieve"
    /\ LET r == req[p]
       IN Step(p, [r EXCEPT !.pc = "primary",
                            !.query = enhanced_query(r.chat_history, r.q),
                            !.calls = Call(r, "retrieve", ok),
                            !.docs = found,
                            !.prompt = [dialog |-> r.chat_history,
                                        docs |-> found, q |-> r.q]])
    /\ UNCHANGED <<sessVars, vectorstore, now, nreq, answered, buildVars, restVars>>

\* main.py:523-618: dialog context, enhanced query, retrieval (a raise
\* degrades to no documents), prompt
ask_retrieve(p, ok, found) ==
    /\ p = "http"
    /\ req[p].pc = "retrieve"
    /\ LET r == req[p]
           relevant_docs == IF ok THEN found ELSE <<>>
       IN Step(p, [r EXCEPT !.pc = "primary",
                            !.query = enhanced_query(r.chat_history, r.q),
                            !.calls = Call(r, "retrieve", ok),
                            !.docs = relevant_docs,
                            !.prompt = [dialog |-> r.chat_history,
                                        docs |-> relevant_docs, q |-> r.q]])
    /\ UNCHANGED <<sessVars, vectorstore, now, nreq, answered, buildVars, restVars>>

\* variant of ask_primary: no fallback, a raise of the primary provider
\* ends the request
ask_primary_no_fallback(p, ok, a) ==
    /\ p = "http"
    /\ req[p].pc = "primary"
    /\ LET r == [req[p] EXCEPT !.calls = Call(req[p], "primary", ok),
                               !.sent = Append(req[p].sent, req[p].prompt)]
       IN IF ok
          THEN Step(p, [r EXCEPT !.pc = "update", !.answer = a])
          ELSE Step(p, [r EXCEPT !.pc = "done", !.resp = Resp("llm_error", 500)])
    /\ UNCHANGED <<sessVars, vectorstore, now, nreq, answered, buildVars, restVars>>

\* main.py:621-630: the primary provider (Claude)
ask_primary(p, ok, a) ==
    /\ p = "http"
    /\ req[p].pc = "primary"
    /\ LET r == [req[p] EXCEPT !.calls = Call(req[p], "primary", ok),
                               !.sent = Append(req[p].sent, req[p].prompt)]
       IN IF ok
          THEN Step(p, [r EXCEPT !.pc = "update", !.answer = a])
          ELSE Step(p, [r EXCEPT !.pc = "secondary"])
    /\ UNCHANGED <<sessVars, vectorstore, now, nreq, answered, buildVars, restVars>>

\* main.py:632-650: the backup provider (OpenAI), only after the primary raised
ask_secondary(p, ok, a) ==
    /\ p = "http"
    /\ req[p].pc = "secondary"
    /\ LET r == [req[p] EXCEPT !.calls = Call(req[p], "secondary", ok),
                               !.sent = Append(req[p].sent, req[p].prompt)]
       IN IF ok
          THEN Step(p, [r EXCEPT !.pc = "update", !.answer = a])
          ELSE Step(p, [r EXCEPT !.pc = "done", !.resp = Resp("llm_error", 500)])
    /\ UNCHANGED <<sessVars, vectorstore, now, nreq, answered, buildVars, restVars>>

\* main.py:652-655: append (q, answer), keep the most recent 15
ask_update(p) ==
    /\ p = "http"
    /\ req[p].pc = "update"
    /\ LET sid == req[p].sid
       IN session_memories' =
            [session_memories EXCEPT
               ![sid] = append_truncate(session_memories[sid], <<req[p].q, req[p].answer>>)]
    /\ Step(p, [req[p] EXCEPT !.pc = "respond", !.calls = Call(req[p], "update", TRUE)])
    /\ UNCHANGED <<session_last_activity, telegram_sessions, vectorstore, now,
                   nreq, answered, buildVars, restVars>>

\* main.py:657-669: sources and the answer response.
\* ok = FALSE: building the response raises, caught at main.py:671
ask_respond(p, ok) ==
    /\ p = "http"
    /\ req[p].pc = "respond"
    /\ IF ok
       THEN /\ Step(p, [req[p] EXCEPT
                          !.pc = "done",
                          !.calls = Call(req[p], "respond", TRUE),
                          !.resp = [kind |-> "answer", status |-> 200,
                                    answer |-> req[p].answer,
                                    sources |-> dedup_titles(req[p].docs, {})]])
            /\ answered' = [answered EXCEPT
                              ![req[p].sid] = Append(@, <<req[p].q, req[p].answer>>)]
       ELSE /\ Step(p, [req[p] EXCEPT !.pc = "except",
                                      !.calls = Call(req[p], "respond", FALSE)])
            /\ UNCHANGED answered
    /\ UNCHANGED <<sessVars, vectorstore, now, nreq, buildVars, restVars>>

\* main.py:671-691: top-level handler: write the error log, answer with the
\* generic error.  The write is not guarded: when it raises, the exception
\* leaves the handler.
ask_except(p, logok) ==
    /\ p = "http"
    /\ req[p].pc = "except"
    /\ LET r == [req[p] EXCEPT !.calls = Call(req[p], "error_log", logok)]
       IN IF logok
          THEN Step(p, [r EXCEPT !.pc = "done", !.resp = Resp("generic_error", 500)])
          ELSE Step(p, [r EXCEPT !.pc = "done", !.resp = Resp("exception", 0)])
    /\ UNCHANGED <<sessVars, vectorstore, now, nreq, answered, buildVars, restVars>>

\* variant of clear_session: the last activity of the session is refreshed
clear_session_touch(cookie) ==
    /\ LET found == cookie # "" /\ cookie \in DOMAIN session_memories
       IN /\ session_memories' =
                IF found THEN [session_memories EXCEPT ![cookie] = <<>>]
                ELSE session_memories
          /\ session_last_activity' =
                IF found THEN Put(session_last_activity, cookie, now)
                ELSE session_last_activity
          /\ answered' = IF found THEN [answered EXCEPT ![cookie] = <<>>] ELSE answered
          /\ Step("clear", [ReqIdle EXCEPT !.pc = "done", !.cookie = cookie,
                                            !.resp = Resp(IF found THEN "clear_success"
                                                          ELSE "clear_error", 200)])
    /\ UNCHANGED <<telegram_sessions, vectorstore, now, nreq, buildVars, restVars>>

\* main.py:378-385: POST /clear-session, req["clear"] is its response.  The
\* handler is a plain function: the server runs it on a thread of its pool,
\* beside the event loop that runs ask
clear_session(cookie) ==
    /\ LET found == cookie # "" /\ cookie \in DOMAIN session_memories
       IN /\ session_memories' =
                IF found THEN [session_memories EXCEPT ![cookie] = <<>>]
                ELSE session_memories
          /\ answered' = IF found THEN [answered EXCEPT ![cookie] = <<>>] ELSE answered
          /\ Step("clear", [ReqIdle EXCEPT !.pc = "done", !.cookie = cookie,
                                            !.resp = Resp(IF found THEN "clear_success"
                                                          ELSE "clear_error", 200)])
    /\ UNCHANGED <<session_last_activity, telegram_sessions, vectorstore, now,
                   nreq, buildVars, restVars>>

(***************************************************************************)
(* Telegram front end  (telegram_bot.py)                                   *)
(***************************************************************************)
\* str.lower() on the alphabet of the model
lower_char(c) == IF c = "H" THEN "h" ELSE c

lower(s) == [i \in 1..Len(s) |-> lower_char(s[i])]

startswith(s, prefix) == Len(prefix) <= Len(s) /\ SubSeq(s, 1, Len(prefix)) = prefix

\* len(s.split()): the number of maximal runs of non-whitespace characters
word_count(s) ==
    Cardinality({i \in 1..Len(s) : /\ s[i] \notin Whitespace
                                   /\ (i = 1 \/ s[i - 1] \in Whitespace)})

\* telegram_bot.py:43-47, the entries written in the alphabet of the model
greetings == {<<"h", "i">>, <<"h", "e", "y">>, <<"h", "e", "l", "l", "o">>}

\* telegram_bot.py:41-52
is_greeting(text) ==
    LET text_lower == lower(text)
    IN \/ text_lower \in greetings
       \/ /\ \E g \in greetings : startswith(text_lower, g)
          /\ word_count(text_lower) <= 3

\* telegram_bot.py:60,105,136  str(user_id)
str_user ==  [u \in {1, 2} |-> IF u = 1 THEN "1" ELSE "2"]

Marker == "M"

RECURSIVE after_marker(_)
\* answer.split(marker, 1)[1]: the text after the first marker
after_marker(s) == IF Head(s) = Marker THEN Tail(s) ELSE after_marker(Tail(s))

\* telegram_bot.py:323-324
strip_marker(answer) ==
    IF \E i \in 1..Len(answer) : answer[i] = Marker
    THEN strip(after_marker(answer)) ELSE answer

\* telegram_bot.py:55-73: /start
start_command(user) ==
    /\ Idle
    /\ LET session_id == str_user[user]
       IN /\ session_memories' = IF session_id \notin DOMAIN session_memories
                                 THEN Put(session_memories, session_id, <<>>)
                                 ELSE session_memories
          /\ answered' = IF session_id \notin DOMAIN session_memories
                         THEN Put(answered, session_id, <<>>) ELSE answered
          /\ session_last_activity' = Put(session_last_activity, session_id, now)
          /\ telegram_sessions' = Put(telegram_sessions, user, session_id)
    /\ Forget
    /\ UNCHANGED <<vectorstore, now, nreq, buildVars, restVars>>

\* telegram_bot.py:91-109: /clear
clear_command(user) ==
    /\ Idle
    /\ IF user \in DOMAIN telegram_sessions
       THEN LET session_id == telegram_sessions[user]
            IN IF session_id \in DOMAIN session_memories
               THEN /\ session_memories' = [session_memories EXCEPT ![session_id] = <<>>]
                    /\ answered' = [answered EXCEPT ![session_id] = <<>>]
                    /\ session_last_activity' = Put(session_last_activity, session_id, now)
                    /\ UNCHANGED telegram_sessions
               ELSE UNCHANGED <<sessVars, answered>>
       ELSE LET session_id == str_user[user]
            IN /\ session_memories' = Put(session_memories, session_id, <<>>)
               /\ answered' = Put(answered, session_id, <<>>)
               /\ session_last_activity' = Put(session_last_activity, session_id, now)
               /\ telegram_sessions' = Put(telegram_sessions, user, session_id)
    /\ Forget
    /\ UNCHANGED <<vectorstore, now, nreq, buildVars, restVars>>

\* telegram_bot.py:116-152: the message arrives.  "/" is ignored, another
\* command is rejected; otherwise the session is resolved, created and
\* refreshed, THEN clean_old_sessions() runs, then the progress message is
\* sent.  sent = FALSE: reply_text raises (outside the try block)
handle_message_receive(p, user, text, sent) ==
    /\ p = "tg"
    /\ ~InFlight(p)
    /\ nreq' = nreq + 1
    /\ LET r == [ReqIdle EXCEPT
                    !.q = text, !.user = user,
                    !.stale = is_stale(IF user \notin DOMAIN telegram_sessions
                                       THEN str_user[user] ELSE telegram_sessions[user])]
       IN IF strip(text) = <<"/">>
          THEN /\ Step(p, [r EXCEPT !.pc = "done", !.resp = Resp("ignored", 0)])
               /\ UNCHANGED <<sessVars, answered>>
          ELSE IF startswith(text, <<"/">>) /\ Len(text) > 1
          THEN /\ Step(p, [r EXCEPT !.pc = "done", !.resp = Resp("unknown_command", 0),
                                    !.msgs = <<"unknown_command">>])
               /\ UNCHANGED <<sessVars, answered>>
          ELSE LET session_id == IF user \notin DOMAIN telegram_sessions
                                 THEN str_user[user] ELSE telegram_sessions[user]
                   mem == IF session_id \notin DOMAIN session_memories
                          THEN Put(session_memories, session_id, <<>>)
                          ELSE session_memories
                   act == Put(session_last_activity, session_id, now)
                   c == clean_old_sessions(mem, act, now)
               IN /\ telegram_sessions' = Put(telegram_sessions, user, session_id)
                  /\ session_memories' = c.mem
                  /\ session_last_activity' = c.act
                  /\ answered' = Restrict(
                                   IF session_id \notin DOMAIN session_memories
                                   THEN Put(answered, session_id, <<>>) ELSE answered,
                                   (DOMAIN mem) \ (DOMAIN c.mem))
                  /\ LET r2 == [r EXCEPT !.sid = session_id,
                                          !.calls = Call(r, "clean", TRUE),
                                          !.cleaned = expired_sessions(act, now)]
                     IN IF sent
                        THEN Step(p, [r2 EXCEPT !.pc = "greeting",
                                                !.msgs = <<"processing">>])
                        ELSE Step(p, [r2 EXCEPT !.pc = "done",
                                                !.resp = Resp("exception", 0)])
    /\ UNCHANGED <<vectorstore, now, buildVars, restVars>>

\* telegram_bot.py:156-166: a greeting is answered without the knowledge
\* base.  o: "ok", or the await that raises ("delete", "reply")
handle_message_greeting(p, o) ==
    /\ p = "tg"
    /\ req[p].pc = "greeting"
    /\ LET r == req[p]
           greeting_response == <<"g">>
       IN IF ~is_greeting(r.q)
          THEN /\ o = "ok"
               /\ Step(p, [r EXCEPT !.pc = "load"])
               /\ UNCHANGED <<session_memories, answered>>
          ELSE IF o = "delete"
          THEN /\ Step(p, [r EXCEPT !.pc = "except", !.calls = Call(r, "respond", FALSE)])
               /\ UNCHANGED <<session_memories, answered>>
          ELSE /\ session_memories' =
                    [session_memories EXCEPT
                       ![r.sid] = append_truncate(@, <<r.q, greeting_response>>)]
               /\ IF o = "ok"
                  THEN /\ Step(p, [r EXCEPT !.pc = "done", !.answer = greeting_response,
                                            !.calls = Call(r, "respond", TRUE),
                                            !.msgs = <<"greeting">>,
                                            !.resp = [kind |-> "greeting", status |-> 200,
                                                      answer |-> greeting_response,
                                                      sources |-> <<>>]])
                       /\ answered' = [answered EXCEPT
                                         ![r.sid] = Append(@, <<r.q, greeting_response>>)]
                  ELSE /\ Step(p, [r EXCEPT !.pc = "except", !.msgs = <<>>,
                                            !.calls = Call(r, "respond", FALSE)])
                       /\ UNCHANGED answered
    /\ UNCHANGED <<session_last_activity, telegram_sessions, vectorstore, now,
                   nreq, buildVars, restVars>>

\* telegram_bot.py:169-179: the index is loaded by the first request that
\* needs it and kept in the global
handle_message_load(p, ok) ==
    /\ p = "tg"
    /\ req[p].pc = "load"
    /\ IF vectorstore # "None"
       THEN /\ ok
            /\ Step(p, [req[p] EXCEPT !.pc = "retrieve"])
            /\ UNCHANGED <<vectorstore, loaded>>
       ELSE LET r == [req[p] EXCEPT !.calls = Call(req[p], "load_vectorstore", ok)]
            IN IF ok
               THEN /\ vectorstore' = "loaded"
                    /\ loaded' = loaded \cup {p}
                    /\ Step(p, [r EXCEPT !.pc = "retrieve"])
               ELSE /\ UNCHANGED <<vectorstore, loaded>>
                    /\ Step(p, [r EXCEPT !.pc = "done", !.msgs = <<"index_error">>,
                                         !.resp = Resp("index_error", 500)])
    /\ UNCHANGED <<sessVars, now, nreq, answered, buildVars>>
    /\ UNCHANGED <<ingestVars, mainVars, admin, info, program, rb, th, call>>

\* telegram_bot.py:181-294: history, enhanced query, retrieval (a raise
\* degrades to no documents), progress message, prompt.
\* edited = FALSE: edit_text at line 231 raises
handle_message_retrieve(p, ok, found, edited) ==
    /\ p = "tg"
    /\ req[p].pc = "retrieve"
    /\ LET chat_history == session_memories[req[p].sid]
           relevant_docs == IF ok THEN found ELSE <<>>
           r == [req[p] EXCEPT !.chat_history = chat_history,
                               !.query = enhanced_query(chat_history, req[p].q),
                               !.calls = Call(req[p], "retrieve", ok),
                               !.docs = relevant_docs]
       IN IF edited
          THEN Step(p, [r EXCEPT !.pc = "primary", !.msgs = <<"generating">>,
                                 !.prompt = [dialog |-> chat_history,
                                             docs |-> relevant_docs, q |-> r.q]])
          ELSE Step(p, [r EXCEPT !.pc = "except", !.calls = Call(r, "edit_text", FALSE)])
    /\ UNCHANGED <<sessVars, vectorstore, now, nreq, answered, buildVars, restVars>>

\* telegram_bot.py:297-303
handle_message_primary(p, ok, a) ==
    /\ p = "tg"
    /\ req[p].pc = "primary"
    /\ LET r == [req[p] EXCEPT !.calls = Call(req[p], "primary", ok),
                               !.sent = Append(req[p].sent, req[p].prompt)]
       IN IF ok
          THEN Step(p, [r EXCEPT !.pc = "update", !.answer = a])
          ELSE Step(p, [r EXCEPT !.pc = "secondary"])
    /\ UNCHANGED <<sessVars, vectorstore, now, nreq, answered, buildVars, restVars>>

\* telegram_bot.py:305-320
handle_message_secondary(p, ok, a) ==
    /\ p = "tg"
    /\ req[p].pc = "secondary"
    /\ LET r == [req[p] EXCEPT !.calls = Call(req[p], "secondary", ok),
                               !.sent = Append(req[p].sent, req[p].prompt)]
       IN IF ok
          THEN Step(p, [r EXCEPT !.pc = "update", !.answer = a])
          ELSE Step(p, [r EXCEPT !.pc = "done", !.msgs = <<"llm_error">>,
                                 !.resp = Resp("llm_error", 500)])
    /\ UNCHANGED <<sessVars, vectorstore, now, nreq, answered, buildVars, restVars>>

\* telegram_bot.py:322-329: strip the marker, append, keep the most recent 15
handle_message_update(p) ==
    /\ p = "tg"
    /\ req[p].pc = "update"
    /\ LET answer == strip_marker(req[p].answer)
       IN /\ session_memories' =
               [session_memories EXCEPT
                  ![req[p].sid] = append_truncate(@, <<req[p].q, answer>>)]
          /\ Step(p, [req[p] EXCEPT !.pc = "respond", !.answer = answer,
                                    !.calls = Call(req[p], "update", TRUE)])
    /\ UNCHANGED <<session_last_activity, telegram_sessions, vectorstore, now,
                   nreq, answered, buildVars, restVars>>

\* telegram_bot.py:331-369: the answer is sent.  ok = FALSE: one of the
\* awaits raises
handle_message_respond(p, ok) ==
    /\ p = "tg"
    /\ req[p].pc = "respond"
    /\ IF ok
       THEN /\ Step(p, [req[p] EXCEPT
                          !.pc = "done", !.msgs = <<"answer">>,
                          !.calls = Call(req[p], "respond", TRUE),
                          !.resp = [kind |-> "answer", status |-> 200,
                                    answer |-> req[p].answer,
                                    sources |-> req[p].docs]])
            /\ answered' = [answered EXCEPT
                              ![req[p].sid] = Append(@, <<req[p].q, req[p].answer>>)]
       ELSE /\ Step(p, [req[p] EXCEPT !.pc = "except",
                                      !.calls = Call(req[p], "respond", FALSE)])
            /\ UNCHANGED answered
    /\ UNCHANGED <<sessVars, vectorstore, now, nreq, buildVars, restVars>>

\* telegram_bot.py:371-390: top-level handler of the message
handle_message_except(p, logok) ==
    /\ p = "tg"
    /\ req[p].pc = "except"
    /\ LET r == [req[p] EXCEPT !.calls = Call(req[p], "error_log", logok)]
       IN IF logok
          THEN Step(p, [r EXCEPT !.pc = "done", !.msgs = <<"generic_error">>,
                                 !.resp = Resp("generic_error", 500)])
          ELSE Step(p, [r EXCEPT !.pc = "done", !.resp = Resp("exception", 0)])
    /\ UNCHANGED <<sessVars, vectorstore, now, nreq, answered, buildVars, restVars>>

\* the clock (time.time(), datetime.now()) advances between requests: a
\* handler takes seconds, the steps of the clock are a day long
Tick(d) ==
    /\ Idle
    /\ now + d <= MaxTime
    /\ now' = now + d
    /\ Forget
    /\ UNCHANGED <<sessVars, vectorstore, nreq, answered, buildVars, restVars>>

(***************************************************************************)
(* build_index: embedding and index construction                           *)
(* (build_index_local.py:301-393).  The chunks are 0 .. texts-1; db is the *)
(* set of chunks in the FAISS index; attempts lists the embedding calls.   *)
(***************************************************************************)
ErrKinds == {"rate_limit", "other"}

\* texts[lo:hi]
Slice(lo, hi) == {c \in 0..(texts - 1) : lo <= c /\ c < hi}

Min(a, b) == IF a <= b THEN a ELSE b

Attempt(lo, hi, backoff, e) == [lo |-> lo, hi |-> hi, backoff |-> backoff, e |-> e]

\* build_index_local.py:352  "rate_limit" in str(e).lower()
is_rate_limit(e) == e = "rate_limit"

\* build_index_local.py:305-313: the first batch initialises the index
build_first_batch(e) ==
    /\ bpc = "first"
    /\ LET hi == Min(BATCH_SIZE, texts)
       IN /\ attempts' = Append(attempts, Attempt(0, hi, FALSE, e))
          /\ IF e = "ok"
             THEN /\ db' = Slice(0, hi)
                  /\ cur' = BATCH_SIZE
                  /\ bpc' = "loop"
             ELSE /\ bpc' = "first_smaller"
                  /\ UNCHANGED <<db, cur>>
    /\ UNCHANGED <<texts, batch_size, bresult>>
    /\ UNCHANGED <<serviceVars, restVars>>

\* variant of build_first_smaller: the loop goes on after the first 50 chunks
build_first_smaller_keeps_start(e) ==
    /\ bpc = "first_smaller"
    /\ LET hi == Min(SMALLER_BATCH_SIZE, texts)
       IN /\ attempts' = Append(attempts, Attempt(0, hi, FALSE, e))
          /\ IF e = "ok"
             THEN /\ db' = Slice(0, hi)
                  /\ batch_size' = SMALLER_BATCH_SIZE
                  /\ cur' = BATCH_SIZE
                  /\ bpc' = "loop"
                  /\ UNCHANGED bresult
             ELSE /\ bpc' = "done"
                  /\ bresult' = [status |-> "raised", chunk_count |-> 0, index |-> {}]
                  /\ UNCHANGED <<db, batch_size, cur>>
    /\ UNCHANGED texts
    /\ UNCHANGED <<serviceVars, restVars>>

\* build_index_local.py:314-322: after any error, the first batch again with
\* 20 chunks, outside any try block: a second error leaves build_index
build_first_smaller(e) ==
    /\ bpc = "first_smaller"
    /\ LET hi == Min(SMALLER_BATCH_SIZE, texts)
       IN /\ attempts' = Append(attempts, Attempt(0, hi, FALSE, e))
          /\ IF e = "ok"
             THEN /\ db' = Slice(0, hi)
                  /\ batch_size' = SMALLER_BATCH_SIZE
                  /\ cur' = SMALLER_BATCH_SIZE
                  /\ bpc' = "loop"
                  /\ UNCHANGED bresult
             ELSE /\ bpc' = "done"
                  /\ bresult' = [status |-> "raised", chunk_count |-> 0, index |-> {}]
                  /\ UNCHANGED <<db, batch_size, cur>>
    /\ UNCHANGED texts
    /\ UNCHANGED <<serviceVars, restVars>>

\* build_index_local.py:327-356,367-369: one batch of the loop
\* for i in range(batch_size, len(texts), batch_size)
build_batch(e) ==
    /\ bpc = "loop"
    /\ cur < texts
    /\ LET end_idx == Min(cur + batch_size, texts)
       IN /\ attempts' = Append(attempts, Attempt(cur, end_idx, FALSE, e))
          /\ IF e = "ok"
             THEN /\ db' = db \cup Slice(cur, end_idx)
                  /\ cur' = cur + batch_size
                  /\ UNCHANGED bpc
             ELSE IF is_rate_limit(e)
             THEN /\ bpc' = "retry"
                  /\ UNCHANGED <<db, cur>>
             ELSE /\ cur' = cur + batch_size
                  /\ UNCHANGED <<db, bpc>>
    /\ UNCHANGED <<texts, batch_size, bresult>>
    /\ UNCHANGED <<serviceVars, restVars>>

\* build_index_local.py:354-366: after the 60 s sleep, the same batch once more
build_batch_retry(e) ==
    /\ bpc = "retry"
    /\ LET end_idx == Min(cur + batch_size, texts)
       IN /\ attempts' = Append(attempts, Attempt(cur, end_idx, TRUE, e))
          /\ db' = IF e = "ok" THEN db \cup Slice(cur, end_idx) ELSE db
          /\ cur' = cur + batch_size
          /\ bpc' = "loop"
    /\ UNCHANGED <<texts, batch_size, bresult>>
    /\ UNCHANGED <<serviceVars, restVars>>

\* variant of build_return: chunk_count counts the chunks of the index
build_return_indexed ==
    /\ bpc = "loop"
    /\ cur >= texts
    /\ bpc' = "done"
    /\ bresult' = [status |-> "returned", chunk_count |-> Cardinality(db), index |-> db]
    /\ UNCHANGED <<texts, batch_size, db, cur, attempts>>
    /\ UNCHANGED <<serviceVars, restVars>>

\* build_index_local.py:371-393: test search (its failure is caught) and result
build_return ==
    /\ bpc = "loop"
    /\ cur >= texts
    /\ bpc' = "done"
    /\ bresult' = [status |-> "returned", chunk_count |-> texts, index |-> db]
    /\ UNCHANGED <<texts, batch_size, db, cur, attempts>>
    /\ UNCHANGED <<serviceVars, restVars>>

(***************************************************************************)
(* build_index: discovery of the files, health check, extraction, split    *)
(* (build_index_local.py:148-299).  A file is a record; a page is the pair *)
(* <<position of the file in files_to_process, page number>>; load_log     *)
(* lists the outcome of loader.load() for every file processed so far.     *)
(***************************************************************************)
supported_extensions == {".pdf", ".docx", ".txt", ".html"}

File(name, suffix, size, pages) ==
    [name |-> name, suffix |-> suffix, size |-> size, pages |-> pages]

LoadErrors == {"corrupt"}

\* build_index_local.py:176-183: supported suffix, not larger than MAX_FILE_SIZE
is_processed(f) == f.suffix \in supported_extensions /\ f.size <= MAX_FILE_SIZE

\* the return of None: no result
build_none ==
    /\ bpc' = "done"
    /\ bresult' = [status |-> "none", chunk_count |-> 0, index |-> {}]

\* build_index_local.py:169-202: the files to process; None when there is none
build_discover ==
    /\ bpc = "discover"
    /\ files_to_process' = SelectSeq(all_files, is_processed)
    /\ IF SelectSeq(all_files, is_processed) = <<>>
       THEN build_none
       ELSE bpc' = "health" /\ UNCHANGED bresult
    /\ UNCHANGED <<texts, batch_size, db, cur, attempts>>
    /\ UNCHANGED <<all_files, fidx, all_docs, error_files, chunk_store, load_log>>
    /\ UNCHANGED <<serviceVars, mainVars, extVars>>

\* build_index_local.py:204-229: the API key and the test call of the
\* embedding API; None when the key is missing or the call raises
build_health(api_key, ok) ==
    /\ bpc = "health"
    /\ IF api_key /\ ok
       THEN /\ bpc' = "files"
            /\ fidx' = 1
            /\ UNCHANGED bresult
       ELSE /\ build_none
            /\ UNCHANGED fidx
    /\ UNCHANGED <<texts, batch_size, db, cur, attempts>>
    /\ UNCHANGED <<all_files, files_to_process, all_docs, error_files, chunk_store,
                   load_log>>
    /\ UNCHANGED <<serviceVars, mainVars, extVars>>

\* the pages loader.load() returns for the file at position i
pages_of(i) == [k \in 1..files_to_process[i].pages |-> <<i, k>>]

\* variant of build_load_file: the first file that cannot be read ends the build
build_load_file_abort(e) ==
    /\ bpc = "files"
    /\ fidx <= Len(files_to_process)
    /\ load_log' = Append(load_log, e)
    /\ fidx' = fidx + 1
    /\ IF e = "ok"
       THEN /\ all_docs' = all_docs \o pages_of(fidx)
            /\ UNCHANGED <<error_files, bpc, bresult>>
       ELSE /\ error_files' = Append(error_files, <<files_to_process[fidx].name, e>>)
            /\ build_none
            /\ UNCHANGED all_docs
    /\ UNCHANGED <<texts, batch_size, db, cur, attempts>>
    /\ UNCHANGED <<all_files, files_to_process, chunk_store>>
    /\ UNCHANGED <<serviceVars, mainVars, extVars>>

\* build_index_local.py:231-269: one file of the loop.  e = "ok": the loader
\* returns the pages; otherwise it raises and (name, message) is recorded
build_load_file(e) ==
    /\ bpc = "files"
    /\ fidx <= Len(files_to_process)
    /\ load_log' = Append(load_log, e)
    /\ fidx' = fidx + 1
    /\ IF e = "ok"
       THEN /\ all_docs' = all_docs \o pages_of(fidx)
            /\ UNCHANGED error_files
       ELSE /\ error_files' = Append(error_files, <<files_to_process[fidx].name, e>>)
            /\ UNCHANGED all_docs
    /\ UNCHANGED <<bpc, bresult>>
    /\ UNCHANGED <<texts, batch_size, db, cur, attempts>>
    /\ UNCHANGED <<all_files, files_to_process, chunk_store>>
    /\ UNCHANGED <<serviceVars, mainVars, extVars>>

\* variant of store_chunks: the last chunk gets no entry
store_chunks_but_last(n) == 0..(n - 2)

\* build_index_local.py:294-299: every chunk gets an id and an entry of the
\* chunk store (the id of chunk c is c)
store_chunks(n) == 0..(n - 1)

\* build_index_local.py:278-299: None when no page was extracted; otherwise
\* the splitter cuts the pages into n chunks
build_split(n) ==
    /\ bpc = "files"
    /\ fidx > Len(files_to_process)
    /\ IF all_docs = <<>>
       THEN /\ build_none
            /\ UNCHANGED <<texts, chunk_store>>
       ELSE /\ texts' = n
            /\ chunk_store' = store_chunks(n)
            /\ bpc' = "first"
            /\ UNCHANGED bresult
    /\ UNCHANGED <<batch_size, db, cur, attempts>>
    /\ UNCHANGED <<all_files, files_to_process, fidx, all_docs, error_files, load_log>>
    /\ UNCHANGED <<serviceVars, mainVars, extVars>>

(***************************************************************************)
(* Directories.  A directory is [exists, files], files a function from     *)
(* file names to contents: the index file holds the set of chunk ids of    *)
(* the index, chunk_store.json the ids of the chunk store.                 *)
(***************************************************************************)
NoDir == [exists |-> FALSE, files |-> <<>>]

has_file(dir, name) == dir.exists /\ name \in DOMAIN dir.files

\* the files `names` are written (created or overwritten) with content c(name)
write_files(dir, content) ==
    [exists |-> TRUE,
     files |-> [x \in (DOMAIN dir.files) \cup (DOMAIN content) |->
                  IF x \in DOMAIN content THEN content[x] ELSE dir.files[x]]]

remove_files(dir, names) == [dir EXCEPT !.files = Restrict(dir.files, names)]

Range(seq) == {seq[i] : i \in 1..Len(seq)}

(***************************************************************************)
(* save_index_to_directory (build_index_local.py:396-461)                  *)
(***************************************************************************)
\* variant of save_order: the error list is written first
save_order_errors_first(errors) ==
    (IF errors # <<>> THEN <<"processing_errors.json">> ELSE <<>>)
       \o <<"index.faiss", "chunk_store.json", "index_metadata.json">>
       \o <<"last_updated.txt", "README.md">>

\* build_index_local.py:404-458: the files in the order they are written
save_order(errors) ==
    <<"index.faiss", "chunk_store.json", "index_metadata.json">>
       \o (IF errors # <<>> THEN <<"processing_errors.json">> ELSE <<>>)
       \o <<"last_updated.txt", "README.md">>

\* the content of the files of an index saved earlier: one chunk, one
\* file that could not be read
saved_old(name) ==
    CASE name = "index.faiss" -> {100}
      [] name = "chunk_store.json" -> {100}
      [] name = "index_metadata.json" ->
            [document_count |-> 1, chunk_count |-> 1, error_count |-> 1]
      [] name = "processing_errors.json" -> <<<<"old.pdf", "corrupt">>>>
      [] OTHER -> "text"

\* build_index_local.py:404-458: what is written to each file
saved_content(name) ==
    CASE name = "index.faiss" -> bresult.index
      [] name = "chunk_store.json" -> chunk_store
      [] name = "index_metadata.json" ->
            [document_count |-> Len(all_docs), chunk_count |-> bresult.chunk_count,
             error_count |-> Len(error_files)]
      [] name = "processing_errors.json" -> error_files
      [] OTHER -> "text"

\* the directory after save_index_to_directory was left by an exception:
\* k = 0, os.makedirs raised; k > 0, the k-th write raised.  The function has
\* no try block: nothing written before is removed
save_partial(dir, k) ==
    IF k = 0 THEN dir
    ELSE write_files(dir, [x \in Range(SubSeq(save_order(error_files), 1, k - 1)) |->
                             saved_content(x)])

\* the directory after save_index_to_directory has returned True
save_index_to_directory(dir) ==
    write_files(dir, [x \in Range(save_order(error_files)) |-> saved_content(x)])

(***************************************************************************)
(* The copy of the local index to the deployment storage, one file         *)
(* operation per step: fn = "render" is copy_index_to_render of the build  *)
(* script (build_index_local.py:464-519), fn = "storage" is                *)
(* copy_index_to_render_storage of the service (main.py:104-158).          *)
(* cp.log lists the file operations done on the destination.               *)
(***************************************************************************)
CopyIdle == [pc |-> "idle", fn |-> "", caller |-> "", todo |-> <<>>, log |-> <<>>,
             ret |-> "none"]

\* build_index_local.py:485, main.py:122
lock_name(fn) == IF fn = "render" THEN "copy_in_progress.lock" ELSE "index_building.lock"

\* os.listdir: the names of a directory, in a fixed order
dir_order ==
    <<"index.faiss", "chunk_store.json", "index_metadata.json",
      "processing_errors.json", "last_updated.txt", "README.md", "copied_at.txt",
      "index_copied_flag.txt", "error.log", "copy_in_progress.lock",
      "index_building.lock">>

in_local_dir(name) == has_file(local_dir, name)

listdir_local == SelectSeq(dir_order, in_local_dir)

local_content(name) == local_dir.files[name]

stamp_content(name) == "text"

\* the call: copy_index_to_render starts with the destination directory
\* (469), copy_index_to_render_storage with the local index (109)
copy_call(fn, caller) ==
    [CopyIdle EXCEPT !.pc = IF fn = "render" THEN "dir" ELSE "src",
                     !.fn = fn, !.caller = caller]

\* return False
copy_false == cp' = [cp EXCEPT !.pc = "done", !.ret = "False"]

\* build_index_local.py:469-476 (makedirs only when the directory is
\* missing, False when it raises); main.py:115 (inside the try block)
copy_check_dir(ok) ==
    /\ cp.pc = "dir"
    /\ IF cp.fn = "render" /\ render_dir.exists
       THEN /\ ok
            /\ cp' = [cp EXCEPT !.pc = "src"]
            /\ UNCHANGED render_dir
       ELSE IF ok
       THEN /\ render_dir' = [render_dir EXCEPT !.exists = TRUE]
            /\ cp' = [cp EXCEPT !.pc = IF cp.fn = "render" THEN "src" ELSE "clear"]
       ELSE /\ copy_false
            /\ UNCHANGED render_dir
    /\ UNCHANGED <<mpc, args, local_dir, exit_code>>
    /\ UNCHANGED <<serviceVars, buildVars, ingestVars, extVars>>

\* build_index_local.py:480-482, main.py:109-111: no local index, False
copy_check_src ==
    /\ cp.pc = "src"
    /\ IF has_file(local_dir, "index.faiss")
       THEN cp' = [cp EXCEPT !.pc = IF cp.fn = "render" THEN "lock" ELSE "dir"]
       ELSE copy_false
    /\ UNCHANGED <<mpc, args, local_dir, render_dir, exit_code>>
    /\ UNCHANGED <<serviceVars, buildVars, ingestVars, extVars>>

\* main.py:118-119 and 65-100: clear_render_storage(except_files=["error.log"])
\* removes everything else; its errors are swallowed (deleted = FALSE:
\* nothing could be removed)
copy_clear(deleted) ==
    /\ cp.pc = "clear"
    /\ render_dir' = IF deleted
                     THEN remove_files(render_dir, (DOMAIN render_dir.files) \ {"error.log"})
                     ELSE render_dir
    /\ cp' = [cp EXCEPT !.pc = "lock",
                        !.log = IF deleted THEN Append(cp.log, "clear") ELSE cp.log]
    /\ UNCHANGED <<mpc, args, local_dir, exit_code>>
    /\ UNCHANGED <<serviceVars, buildVars, ingestVars, extVars>>

\* build_index_local.py:485-490, main.py:122-127: the lock marker is
\* written, then the source directory is listed
copy_lock(ok) ==
    /\ cp.pc = "lock"
    /\ IF ok
       THEN /\ render_dir' = write_files(render_dir, [x \in {lock_name(cp.fn)} |-> stamp_content(x)])
            /\ cp' = [cp EXCEPT !.pc = "items", !.todo = listdir_local,
                                !.log = Append(cp.log, "lock")]
       ELSE /\ copy_false
            /\ UNCHANGED render_dir
    /\ UNCHANGED <<mpc, args, local_dir, exit_code>>
    /\ UNCHANGED <<serviceVars, buildVars, ingestVars, extVars>>

\* build_index_local.py:490-501, main.py:127-138: shutil.copy2 of one item
copy_item(ok) ==
    /\ cp.pc = "items"
    /\ cp.todo # <<>>
    /\ IF ok
       THEN /\ render_dir' = write_files(render_dir, [x \in {Head(cp.todo)} |-> local_content(x)])
            /\ cp' = [cp EXCEPT !.todo = Tail(cp.todo),
                                !.log = Append(cp.log, Head(cp.todo)),
                                !.pc = IF Tail(cp.todo) = <<>> THEN "stamp" ELSE "items"]
       ELSE /\ copy_false
            /\ UNCHANGED render_dir
    /\ UNCHANGED <<mpc, args, local_dir, exit_code>>
    /\ UNCHANGED <<serviceVars, buildVars, ingestVars, extVars>>

\* build_index_local.py:504-508, main.py:141-146: copied_at.txt and
\* index_copied_flag.txt; k of the two writes succeed
copy_stamp(k) ==
    /\ cp.pc = "stamp"
    /\ render_dir' = write_files(render_dir,
                                 [x \in Range(SubSeq(<<"copied_at.txt", "index_copied_flag.txt">>, 1, k))
                                    |-> stamp_content(x)])
    /\ IF k = 2 THEN cp' = [cp EXCEPT !.pc = "unlock"] ELSE copy_false
    /\ UNCHANGED <<mpc, args, local_dir, exit_code>>
    /\ UNCHANGED <<serviceVars, buildVars, ingestVars, extVars>>

\* build_index_local.py:511-519, main.py:149-158: the lock marker is
\* removed and True returned; every exception of the try block is caught
\* by one handler that returns False
copy_unlock(ok) ==
    /\ cp.pc = "unlock"
    /\ IF ok
       THEN /\ render_dir' = remove_files(render_dir, {lock_name(cp.fn)})
            /\ cp' = [cp EXCEPT !.pc = "done", !.ret = "True",
                                !.log = Append(cp.log, "unlock")]
       ELSE /\ copy_false
            /\ UNCHANGED render_dir
    /\ UNCHANGED <<mpc, args, local_dir, exit_code>>
    /\ UNCHANGED <<serviceVars, buildVars, ingestVars, extVars>>

(***************************************************************************)
(* The script: main and __main__ (build_index_local.py:522-623)            *)
(***************************************************************************)
\* sys.exit(code)
main_exit(code) == mpc' = "exit" /\ exit_code' = code

\* build_index_local.py:530-560: without API key main returns 1, otherwise
\* build_index is called
main_start(api_key) ==
    /\ mpc = "start"
    /\ IF api_key
       THEN mpc' = "build" /\ bpc' = "discover" /\ UNCHANGED exit_code
       ELSE main_exit(1) /\ UNCHANGED bpc
    /\ UNCHANGED <<texts, batch_size, db, cur, attempts, bresult>>
    /\ UNCHANGED <<args, local_dir, render_dir, cp>>
    /\ UNCHANGED <<serviceVars, ingestVars, extVars>>

\* variant of main_build_returned: main goes on whatever build_index returned
main_build_returned_unchecked ==
    /\ mpc = "build"
    /\ bpc = "done"
    /\ IF bresult.status # "raised"
       THEN mpc' = "save" /\ UNCHANGED exit_code
       ELSE main_exit(1)
    /\ bpc' = "off"
    /\ texts' = 0 /\ batch_size' = BATCH_SIZE /\ db' = {} /\ cur' = 0
    /\ attempts' = <<>>
    /\ files_to_process' = <<>> /\ fidx' = 0 /\ load_log' = <<>>
    /\ UNCHANGED <<bresult, all_files, all_docs, error_files, chunk_store>>
    /\ UNCHANGED <<args, local_dir, render_dir, cp>>
    /\ UNCHANGED <<serviceVars, extVars>>

\* build_index_local.py:562-564 and 620-623: build_index has returned None
\* (return 1) or raised (caught in __main__, exit 1); otherwise main goes on
\* with the result.  The locals of build_index are gone: of its state the
\* result keeps the index, the chunk store, the pages and the error list
main_build_returned ==
    /\ mpc = "build"
    /\ bpc = "done"
    /\ IF bresult.status = "returned"
       THEN mpc' = "save" /\ UNCHANGED exit_code
       ELSE main_exit(1)
    /\ bpc' = "off"
    /\ texts' = 0 /\ batch_size' = BATCH_SIZE /\ db' = {} /\ cur' = 0
    /\ attempts' = <<>>
    /\ files_to_process' = <<>> /\ fidx' = 0 /\ load_log' = <<>>
    /\ UNCHANGED <<bresult, all_files, all_docs, error_files, chunk_store>>
    /\ UNCHANGED <<args, local_dir, render_dir, cp>>
    /\ UNCHANGED <<serviceVars, extVars>>

\* build_index_local.py:567-584: save_index_to_directory(index_data,
\* INDEX_DIR).  k = Len(save_order) + 1: it returns True; a smaller k: it
\* raises (save_partial), caught in __main__.  Then the copy, in the
\* direct-copy mode or on Render when /data exists
main_save(k) ==
    /\ mpc = "save"
    /\ k <= Len(save_order(error_files)) + 1
    /\ IF k <= Len(save_order(error_files))
       THEN /\ local_dir' = save_partial(local_dir, k)
            /\ main_exit(1)
            /\ UNCHANGED cp
       ELSE /\ local_dir' = save_index_to_directory(local_dir)
            /\ IF (args.direct_copy \/ args.is_render)
                  /\ (render_dir.exists \/ args.direct_copy)
               THEN /\ mpc' = "copy"
                    /\ cp' = copy_call("render", "main")
                    /\ UNCHANGED exit_code
               ELSE /\ main_exit(0)
                    /\ UNCHANGED cp
    /\ UNCHANGED <<args, render_dir>>
    /\ UNCHANGED <<serviceVars, buildVars, ingestVars, extVars>>

\* build_index_local.py:576-603: whatever the copy returned, main returns 0
main_copy_returned ==
    /\ mpc = "copy"
    /\ cp.pc = "done" /\ cp.caller = "main"
    /\ main_exit(0)
    /\ UNCHANGED <<args, local_dir, render_dir, cp>>
    /\ UNCHANGED <<serviceVars, buildVars, ingestVars, extVars>>

(***************************************************************************)
(* Administration endpoints of the service (main.py:336-430)               *)
(***************************************************************************)
\* turn changes with every request to an administration endpoint
NoAdmin == [ep |-> "", admin_password |-> "", admin_token |-> "", status |-> 0,
            turn |-> FALSE]

NoInfo == [status |-> "", index_exists |-> FALSE, metadata |-> {}, chunk_count |-> {},
           readable |-> FALSE]

\* hashlib.sha256(password).hexdigest(), on the passwords of the model
sha256_hex(password) == IF password = "pw" THEN "5e88" ELSE "2d71"

\* variant of token_accepted: the token is compared with the password
token_is_password(admin_password, admin_token) ==
    admin_token # "" /\ admin_token = admin_password

\* main.py:347-348
token_accepted(admin_password, admin_token) ==
    admin_token # "" /\ admin_token = sha256_hex(admin_password)

\* main.py:336-357: POST /update-index.  "" is a password that is not
\* configured, a header that is not sent
update_index(admin_password, admin_token) ==
    /\ program = "main.py"
    /\ admin.status # 1
    /\ cp.pc \in {"idle", "done"}
    /\ LET a == [ep |-> "update-index", admin_password |-> admin_password,
                 admin_token |-> admin_token, status |-> 0, turn |-> ~admin.turn]
       IN IF admin_password = ""
          THEN admin' = [a EXCEPT !.status = 500] /\ UNCHANGED cp
          ELSE IF ~token_accepted(admin_password, admin_token)
          THEN admin' = [a EXCEPT !.status = 403] /\ UNCHANGED cp
          ELSE /\ admin' = [a EXCEPT !.status = 1]
               /\ cp' = copy_call("storage", "update_index")
    /\ UNCHANGED <<mpc, args, local_dir, render_dir, exit_code, info, program, rb, th, loaded, call>>
    /\ UNCHANGED <<serviceVars, buildVars, ingestVars>>

\* main.py:357-375: the answer after the copy
update_index_returned ==
    /\ admin.status = 1
    /\ cp.pc = "done" /\ cp.caller = "update_index"
    /\ admin' = [admin EXCEPT !.status = IF cp.ret = "True" THEN 200 ELSE 500]
    /\ UNCHANGED <<mainVars, info, program, rb, th, loaded, call>>
    /\ UNCHANGED <<serviceVars, buildVars, ingestVars>>

\* main.py:388-430: GET /index-info.  A field that is not in the answer is
\* the empty set.  readable = FALSE: the files cannot be read or parsed
get_index_info(readable) ==
    /\ info' = [status |-> "success",
                index_exists |-> has_file(render_dir, "index.faiss"),
                metadata |-> IF has_file(render_dir, "index_metadata.json") /\ readable
                             THEN {render_dir.files["index_metadata.json"]} ELSE {},
                chunk_count |-> IF has_file(render_dir, "chunk_store.json") /\ readable
                                THEN {Cardinality(render_dir.files["chunk_store.json"])}
                                ELSE {},
                readable |-> readable]
    /\ UNCHANGED <<mainVars, admin, program, rb, th, loaded, call>>
    /\ UNCHANGED <<serviceVars, buildVars, ingestVars>>

(***************************************************************************)
(* Background rebuild of static/old_main.py: the lock marker               *)
(* /data/index_building.lock, the handlers of the event loop, the threads  *)
(* that run build_combined_txt and the indexing workers                    *)
(***************************************************************************)
STARTUP_LOCK_AGE == 7200
REBUILD_LOCK_AGE == 10800

\* callers of build_combined_txt: 0 is the event loop (a handler calls the
\* function itself), 1..MaxAdminRequests are the threads of the webhook
Callers == 0..MaxAdminRequests
Threads == 1..MaxAdminRequests

NoLock == [exists |-> FALSE, mtime |-> 0]
NoFrame == [pc |-> "off", force |-> FALSE, ret |-> ""]
Frame(force) == [pc |-> "check", force |-> force, ret |-> ""]
EvIdle == [kind |-> "", pc |-> "idle"]

\* lock: the marker file and its modification time; index: index.faiss is
\* in INDEX_PATH; ev: the handler the event loop runs; bct: the calls of
\* build_combined_txt in progress; running: the indexing workers alive;
\* returning: those of them that are between an early `return' and the
\* finally clause; ended: the way the last worker that ended has ended;
\* n: the requests received; stale_cleared: /rebuild removed a marker it
\* found too old; rebuilds: the rebuilds original_local_code.py has run
NoRebuild ==
    [lock |-> NoLock, index |-> FALSE, ev |-> EvIdle,
     bct |-> [c \in Callers |-> NoFrame], running |-> 0, returning |-> 0,
     ended |-> "", resp |-> "", n |-> 0,
     stale_cleared |-> FALSE, rebuilds |-> 0]

\* old_main.py:83-85
is_index_building(r) == r.lock.exists

\* old_main.py:89-92
create_index_lock(r) == [r EXCEPT !.lock = [exists |-> TRUE, mtime |-> now]]

\* old_main.py:95-98
remove_index_lock(r) == [r EXCEPT !.lock = NoLock]

rb_step(r) ==
    /\ rb' = r
    /\ UNCHANGED <<serviceVars, buildVars, ingestVars, mainVars, admin, info, program, th, loaded, call>>

\* return of build_combined_txt: a handler reads the value, the value of a
\* thread target is dropped and the thread ends
bct_return(r, c, ret) ==
    IF c = 0 THEN [r EXCEPT !.bct[c] = [pc |-> "done", force |-> FALSE, ret |-> ret]]
    ELSE [r EXCEPT !.bct[c] = NoFrame]

\* old_main.py:203-213: the marker and the index are looked at
build_combined_txt_check(c) ==
    /\ rb.bct[c].pc = "check"
    /\ IF is_index_building(rb) /\ ~rb.bct[c].force
       THEN rb_step(bct_return(rb, c, "already_running"))
       ELSE IF rb.index /\ ~rb.bct[c].force
       THEN rb_step(bct_return(rb, c, "exists"))
       ELSE rb_step([rb EXCEPT !.bct[c].pc = "create"])

\* old_main.py:215-227: the directories and the marker are created
build_combined_txt_lock(c, ok) ==
    /\ rb.bct[c].pc = "create"
    /\ IF ok
       THEN rb_step([create_index_lock(rb) EXCEPT !.bct[c].pc = "start"])
       ELSE rb_step(bct_return(rb, c, "raised"))

\* old_main.py:229-239: progress.txt is written and the worker started
build_combined_txt_start(c, ok) ==
    /\ rb.bct[c].pc = "start"
    /\ IF ok
       THEN rb_step(bct_return([rb EXCEPT !.running = @ + 1], c, "started"))
       ELSE rb_step(bct_return(rb, c, "raised"))

\* old_main.py:292-296, 308-311, 337-341, 412-416: the worker returns early
\* (download_failed, missing_path, no_files, no_documents): the empty index
\* is created (built: _create_empty_index swallows its errors) except on
\* missing_path, and remove_index_lock() is called before `return'
run_indexing_process_return(path, built) ==
    /\ path \in {"download_failed", "missing_path", "no_files", "no_documents"}
    /\ path = "missing_path" => ~built
    /\ rb.running - rb.returning > 0
    /\ rb_step([remove_index_lock(rb) EXCEPT !.returning = @ + 1,
                                             !.index = @ \/ built])

\* variant of run_indexing_process_end: without the finally clause
run_indexing_process_end_no_finally(path, built) ==
    /\ path \in {"returned", "success", "exception"}
    /\ path # "success" => ~built
    /\ IF path = "returned" THEN rb.returning > 0 ELSE rb.running - rb.returning > 0
    /\ rb_step([rb EXCEPT
                  !.running = @ - 1,
                  !.returning = IF path = "returned" THEN @ - 1 ELSE @,
                  !.index = @ \/ built,
                  !.ended = path])

\* old_main.py:264-476: _run_indexing_process ends: after an early return
\* (returned), at the end of the try block (success, with the index saved
\* or not) or in the except clause (exception, also when the except clause
\* itself raises at 471); the finally clause (473-475) removes the marker
run_indexing_process_end(path, built) ==
    /\ path \in {"returned", "success", "exception"}
    /\ path # "success" => ~built
    /\ IF path = "returned" THEN rb.returning > 0 ELSE rb.running - rb.returning > 0
    /\ rb_step([remove_index_lock(rb) EXCEPT
                  !.running = @ - 1,
                  !.returning = IF path = "returned" THEN @ - 1 ELSE @,
                  !.index = @ \/ built,
                  !.ended = path])

\* the event loop can take a request
EvReady == rb.ev = EvIdle /\ rb.n < MaxAdminRequests

\* a handler calls build_combined_txt and goes on at `after'
ev_call(r, kind, after, force) ==
    [r EXCEPT !.ev = [kind |-> kind, pc |-> after], !.bct[0] = Frame(force)]

\* build_combined_txt has returned to the handler
EvReturned == rb.bct[0].pc \in {"off", "done"}

\* old_main.py:579-613: startup_event, the marker of an earlier process
startup_check_lock ==
    /\ rb.ev = [kind |-> "startup", pc |-> "lock"]
    /\ IF is_index_building(rb) /\ now - rb.lock.mtime > STARTUP_LOCK_AGE
       THEN IF ~rb.index
            THEN rb_step(ev_call(remove_index_lock(rb), "startup", "index", FALSE))
            ELSE rb_step([remove_index_lock(rb) EXCEPT !.ev.pc = "index"])
       ELSE rb_step([rb EXCEPT !.ev.pc = "index"])

\* old_main.py:615-634: startup_event, the index: an exception of
\* build_combined_txt leaves the handler and the service does not start
startup_check_index ==
    /\ rb.ev = [kind |-> "startup", pc |-> "index"]
    /\ EvReturned
    /\ IF rb.bct[0].ret = "raised"
       THEN rb_step([rb EXCEPT !.ev.pc = "failed", !.running = 0, !.returning = 0])
       ELSE IF ~rb.index /\ ~is_index_building(rb)
       THEN rb_step(ev_call(rb, "startup", "end", FALSE))
       ELSE rb_step([rb EXCEPT !.ev.pc = "end", !.bct[0] = NoFrame])

startup_end ==
    /\ rb.ev = [kind |-> "startup", pc |-> "end"]
    /\ EvReturned
    /\ IF rb.bct[0].ret = "raised"
       THEN rb_step([rb EXCEPT !.ev.pc = "failed", !.running = 0, !.returning = 0])
       ELSE rb_step([rb EXCEPT !.ev = EvIdle, !.bct[0] = NoFrame])

\* the least thread that is not running
free_thread(r) == CHOOSE c \in Threads :
                      /\ r.bct[c].pc = "off"
                      /\ \A d \in Threads : r.bct[d].pc = "off" => c <= d

\* old_main.py:702-745: POST /github-webhook
github_webhook(repo_ok) ==
    /\ program = "static/old_main.py"
    /\ EvReady
    /\ LET r == [rb EXCEPT !.n = @ + 1]
       IN IF ~repo_ok
          THEN rb_step([r EXCEPT !.resp = "skipped"])
          ELSE IF is_index_building(rb)
          THEN rb_step([r EXCEPT !.resp = "info"])
          ELSE rb_step([r EXCEPT !.bct[free_thread(rb)] = Frame(FALSE),
                                 !.resp = "success"])

\* old_main.py:506-560: load_vectorstore, called by /ask.  load_ok: the
\* index that is on the disk can be loaded
old_load_vectorstore(api_key, load_ok) ==
    /\ program = "static/old_main.py"
    /\ EvReady
    /\ LET r == [rb EXCEPT !.n = @ + 1]
       IN IF ~api_key
          THEN rb_step([r EXCEPT !.resp = "raised"])
          ELSE IF rb.index /\ load_ok
          THEN rb_step([r EXCEPT !.resp = "loaded"])
          ELSE IF ~is_index_building(rb)
          THEN rb_step(ev_call(r, "load_vectorstore", "end", FALSE))
          ELSE rb_step([r EXCEPT !.resp = "temporary"])

old_load_vectorstore_returned ==
    /\ rb.ev = [kind |-> "load_vectorstore", pc |-> "end"]
    /\ rb.bct[0].pc = "done"
    /\ rb_step([rb EXCEPT !.ev = EvIdle, !.bct[0] = NoFrame,
                          !.resp = IF rb.bct[0].ret = "raised" THEN "raised"
                                   ELSE "temporary"])

\* old_main.py:747-790: POST /rebuild up to the call of build_combined_txt
rebuild_index(admin_password, admin_token) ==
    /\ program = "static/old_main.py"
    /\ EvReady
    /\ LET a == [ep |-> "rebuild", admin_password |-> admin_password,
                 admin_token |-> admin_token, status |-> 0, turn |-> ~admin.turn]
           r == [rb EXCEPT !.n = @ + 1]
       IN IF admin_password = ""
          THEN admin' = [a EXCEPT !.status = 500] /\ rb' = [r EXCEPT !.resp = "error"]
          ELSE IF ~token_accepted(admin_password, admin_token)
          THEN admin' = [a EXCEPT !.status = 403] /\ rb' = [r EXCEPT !.resp = "error"]
          ELSE IF is_index_building(rb) /\ ~(now - rb.lock.mtime > REBUILD_LOCK_AGE)
          THEN admin' = [a EXCEPT !.status = 200] /\ rb' = [r EXCEPT !.resp = "info"]
          ELSE /\ admin' = [a EXCEPT !.status = 1]
               /\ rb' = ev_call(IF is_index_building(rb)
                                THEN [remove_index_lock(r) EXCEPT !.stale_cleared = TRUE]
                                ELSE r,
                                "rebuild", "end", TRUE)
    /\ UNCHANGED <<serviceVars, buildVars, ingestVars, mainVars, info, program, th, loaded, call>>

\* old_main.py:788-803: the answer of /rebuild
rebuild_index_returned ==
    /\ rb.ev = [kind |-> "rebuild", pc |-> "end"]
    /\ rb.bct[0].pc = "done"
    /\ admin' = [admin EXCEPT !.status = IF rb.bct[0].ret = "raised" THEN 500 ELSE 200]
    /\ rb' = [rb EXCEPT !.ev = EvIdle, !.bct[0] = NoFrame,
                        !.resp = IF rb.bct[0].ret = "raised" THEN "error" ELSE "success"]
    /\ UNCHANGED <<serviceVars, buildVars, ingestVars, mainVars, info, program, th, loaded, call>>

\* original_local_code.py:518-532 and 63-148: POST /rebuild of the first
\* version rebuilds the index in the handler.  ok = FALSE: the build raised
original_rebuild_index(admin_password, admin_token, ok) ==
    /\ program = "original_local_code.py"
    /\ EvReady
    /\ admin' = [ep |-> "rebuild", admin_password |-> admin_password,
                 admin_token |-> admin_token, status |-> IF ok THEN 200 ELSE 500,
                 turn |-> ~admin.turn]
    /\ rb' = [rb EXCEPT !.n = @ + 1, !.rebuilds = @ + 1, !.index = @ \/ ok,
                        !.resp = IF ok THEN "success" ELSE "error"]
    /\ UNCHANGED <<serviceVars, buildVars, ingestVars, mainVars, info, program, th, loaded, call>>

(***************************************************************************)
(* POST /ask of original_local_code.py (264-440): the handler is a plain   *)
(* function, the server runs each request on a thread of its pool, and the *)
(* threads share session_memories and session_last_activity                *)
(***************************************************************************)
PoolThreads == {1, 2}

\* the cookie of the requests a thread handles
thread_cookie(t) == IF t = 1 THEN "s1" ELSE "s2"

\* pc: the place in ask; count: the size of session_last_activity when the
\* scan of clean_old_sessions began; expired_sessions: the list of the scan;
\* alone: the history the request leaves when no other request runs;
\* failed: the index, the retrieval or the generation of the request raised;
\* resp: the status of the response; n: the requests the thread has taken
ThreadIdle == [pc |-> "idle", sid |-> "", q |-> <<>>, answer |-> <<>>, count |-> 0,
               expired_sessions |-> {}, alone |-> <<>>, failed |-> FALSE, resp |-> 0,
               n |-> 0]

NoThreads == [t \in PoolThreads |-> ThreadIdle]

th_step(t, r) ==
    /\ th' = [th EXCEPT ![t] = r]
    /\ UNCHANGED <<telegram_sessions, vectorstore, now, req, nreq, answered>>
    /\ UNCHANGED <<buildVars, ingestVars, mainVars, admin, info, program, rb, loaded, call>>

\* original_local_code.py:264-278 and 202-203: a question that is not blank
\* arrives, clean_old_sessions starts to iterate session_last_activity.items()
thread_ask(t, q) ==
    /\ th[t].pc \in {"idle", "done"}
    /\ th[t].n < MaxThreadRequests
    /\ LET sid == thread_cookie(t)
           kept == IF sid \in DOMAIN session_memories
                      /\ sid \notin expired_sessions(session_last_activity, now)
                   THEN session_memories[sid] ELSE <<>>
       IN th_step(t, [ThreadIdle EXCEPT !.pc = "scan", !.sid = sid, !.q = q,
                                        !.count = Cardinality(DOMAIN session_last_activity),
                                        !.alone = kept, !.n = th[t].n + 1])
    /\ UNCHANGED sessVars

\* original_local_code.py:205-207: the loop over the items; a dictionary
\* whose size has changed since the loop began raises RuntimeError, which
\* the handler answers with 500 (429-440)
thread_scan(t) ==
    /\ th[t].pc = "scan"
    /\ IF Cardinality(DOMAIN session_last_activity) # th[t].count
       THEN th_step(t, [th[t] EXCEPT !.pc = "done", !.resp = 500])
       ELSE th_step(t, [th[t] EXCEPT !.pc = "delete",
                           !.expired_sessions = expired_sessions(session_last_activity, now)])
    /\ UNCHANGED sessVars

\* original_local_code.py:209-213: the sessions of the list are deleted
thread_delete(t) ==
    /\ th[t].pc = "delete"
    /\ session_memories' = Restrict(session_memories, th[t].expired_sessions)
    /\ session_last_activity' = Restrict(session_last_activity, th[t].expired_sessions)
    /\ th_step(t, [th[t] EXCEPT !.pc = "session", !.expired_sessions = {}])

\* original_local_code.py:280-299: the history of the session is created
\* when it is missing, the last activity is set
thread_session(t) ==
    /\ th[t].pc = "session"
    /\ session_memories' = IF th[t].sid \in DOMAIN session_memories THEN session_memories
                           ELSE Put(session_memories, th[t].sid, <<>>)
    /\ session_last_activity' = Put(session_last_activity, th[t].sid, now)
    /\ th_step(t, [th[t] EXCEPT !.pc = "answer"])

\* original_local_code.py:300-402: index, retrieval, generation.  ok = FALSE:
\* one of them raised, the handler answers 500
thread_answer(t, ok, answer) ==
    /\ th[t].pc = "answer"
    /\ IF ok
       THEN th_step(t, [th[t] EXCEPT !.pc = "append", !.answer = answer])
       ELSE th_step(t, [th[t] EXCEPT !.pc = "done", !.resp = 500, !.failed = TRUE])
    /\ UNCHANGED sessVars

\* original_local_code.py:404-427: session_memories[session_id] is looked up
\* again (KeyError when the entry is gone, answered with 500), the pair is
\* appended, the last 15 are kept
thread_append(t) ==
    /\ th[t].pc = "append"
    /\ IF th[t].sid \in DOMAIN session_memories
       THEN /\ session_memories' =
                  Put(session_memories, th[t].sid,
                      append_truncate(session_memories[th[t].sid], <<th[t].q, th[t].answer>>))
            /\ th_step(t, [th[t] EXCEPT !.pc = "done", !.resp = 200])
       ELSE /\ UNCHANGED session_memories
            /\ th_step(t, [th[t] EXCEPT !.pc = "done", !.resp = 500])
    /\ UNCHANGED <<session_last_activity>>

(***************************************************************************)
(* extract_title of the build script (build_index_local.py:119-145).  A    *)
(* text is the sequence of its lines (text.splitlines()), a line and a     *)
(* title are sequences of characters                                       *)
(***************************************************************************)
TITLE_LINES == 10
KEYWORD_LINE_MIN == 10
LONG_LINE_MIN == 20
TITLE_MAX == 100

\* the function that is applied, its arguments and its result
NoCall == [fn |-> "", text |-> <<>>, filename |-> <<>>, result |-> <<>>, pc |-> "off"]

LowerLetters == <<"a", "b", "c", "d", "e", "f", "g", "h", "i", "j", "k", "l", "m",
                  "n", "o", "p", "q", "r", "s", "t", "u", "v", "w", "x", "y", "z">>
UpperLetters == <<"A", "B", "C", "D", "E", "F", "G", "H", "I", "J", "K", "L", "M",
                  "N", "O", "P", "Q", "R", "S", "T", "U", "V", "W", "X", "Y", "Z">>

\* str.upper()
upper_char(c) ==
    IF \E i \in 1..Len(LowerLetters) : LowerLetters[i] = c
    THEN UpperLetters[CHOOSE i \in 1..Len(LowerLetters) : LowerLetters[i] = c]
    ELSE c

upper(s) == [i \in 1..Len(s) |-> upper_char(s[i])]

\* build_index_local.py:129-130: the keywords, written in Latin letters
title_keywords ==
    {<<"Z", "A", "K", "O", "N">>, <<"P", "R", "A", "V", "I", "L">>,
     <<"P", "O", "S", "T", "A", "N", "O", "V", "L">>, <<"M", "S", "F", "O">>,
     <<"K", "O", "D", "E", "K", "S">>,
     <<"R", "E", "G", "U", "L", "I", "R", "O", "V", "A", "N", "I", "E">>,
     <<"I", "N", "S", "T", "R", "U", "K", "C">>,
     <<"P", "O", "L", "O", "Z", "H", "E", "N", "I">>,
     <<"T", "R", "E", "B", "O", "V", "A", "N", "I">>}

\* kw in s
contains(s, kw) ==
    \E i \in 1..(Len(s) - Len(kw) + 1) : SubSeq(s, i, i + Len(kw) - 1) = kw

\* s[:n]
FirstN(s, n) == IF Len(s) <= n THEN s ELSE SubSeq(s, 1, n)

\* the least element of a set of numbers that is not empty
Least(S) == CHOOSE i \in S : \A j \in S : i <= j

\* f"Документ: {filename}"
document_title(filename) == <<"D", "o", "c", ":", " ">> \o filename

\* variant of extract_title: the first line that fits either rule wins
extract_title_by_position(text, filename) ==
    LET lines == FirstN(text, TITLE_LINES)
        line == [i \in 1..Len(lines) |-> strip(lines[i])]
        with_keyword == {i \in 1..Len(lines) :
                            /\ Len(line[i]) > KEYWORD_LINE_MIN
                            /\ \E kw \in title_keywords : contains(upper(line[i]), kw)}
        long == {i \in 1..Len(lines) : Len(line[i]) > LONG_LINE_MIN}
    IN IF with_keyword \cup long = {} THEN document_title(filename)
       ELSE IF Least(with_keyword \cup long) \in with_keyword
       THEN line[Least(with_keyword)] \o <<" ", "(">> \o filename \o <<")">>
       ELSE FirstN(line[Least(long)], TITLE_MAX)
               \o <<".", ".", ".", " ", "(">> \o filename \o <<")">>

\* build_index_local.py:121-142 (the text is a string: nothing raises)
extract_title(text, filename) ==
    LET lines == FirstN(text, TITLE_LINES)
        line == [i \in 1..Len(lines) |-> strip(lines[i])]
        with_keyword == {i \in 1..Len(lines) :
                            /\ Len(line[i]) > KEYWORD_LINE_MIN
                            /\ \E kw \in title_keywords : contains(upper(line[i]), kw)}
        long == {i \in 1..Len(lines) : Len(line[i]) > LONG_LINE_MIN}
    IN IF with_keyword # {}
       THEN line[Least(with_keyword)] \o <<" ", "(">> \o filename \o <<")">>
       ELSE IF long # {}
       THEN FirstN(line[Least(long)], TITLE_MAX)
               \o <<".", ".", ".", " ", "(">> \o filename \o <<")">>
       ELSE document_title(filename)

\* build_index_local.py:255: the title of a page is extracted
title_extract ==
    /\ call.fn = "extract_title"
    /\ call.pc = "args"
    /\ call' = [call EXCEPT !.result = extract_title(call.text, call.filename),
                            !.pc = "done"]
    /\ UNCHANGED <<serviceVars, buildVars, ingestVars, mainVars>>
    /\ UNCHANGED <<admin, info, program, rb, th, loaded>>

(***************************************************************************)
(* The messages of an answer (telegram_bot.py:334-341)                     *)
(***************************************************************************)
Digits == <<"0", "1", "2", "3", "4", "5", "6", "7", "8", "9">>

\* str(n) of a natural number
RECURSIVE str_int(_)
str_int(n) == IF n < 10 THEN <<Digits[n + 1]>>
              ELSE str_int(n \div 10) \o <<Digits[(n % 10) + 1]>>

\* telegram_bot.py:339: answer[i:i + MAX_MESSAGE_LENGTH] for i in
\* range(0, len(answer), MAX_MESSAGE_LENGTH)
answer_chunks(answer) ==
    [k \in 1..((Len(answer) + MAX_MESSAGE_LENGTH - 1) \div MAX_MESSAGE_LENGTH) |->
        SubSeq(answer, (k - 1) * MAX_MESSAGE_LENGTH + 1,
               Min(k * MAX_MESSAGE_LENGTH, Len(answer)))]

\* telegram_bot.py:341: the header of part i of n, the word of the header
\* written in Latin letters of the same number
part_header(i, n) ==
    <<"C", "h", "a", "s", "t", " ">> \o str_int(i) \o <<"/">> \o str_int(n)
       \o <<":", "\n", "\n">>

\* telegram_bot.py:335-341: the texts of the messages sent for an answer
reply_texts(answer) ==
    IF Len(answer) <= MAX_MESSAGE_LENGTH THEN <<answer>>
    ELSE LET chunks == answer_chunks(answer)
         IN [i \in 1..Len(chunks) |-> part_header(i, Len(chunks)) \o chunks[i]]

\* telegram_bot.py:334-341: the answer is sent
answer_reply ==
    /\ call.fn = "reply_texts"
    /\ call.pc = "args"
    /\ call' = [call EXCEPT !.result = reply_texts(call.text), !.pc = "done"]
    /\ UNCHANGED <<serviceVars, buildVars, ingestVars, mainVars>>
    /\ UNCHANGED <<admin, info, program, rb, th, loaded>>

(***************************************************************************)
(* Specifications                                                          *)
(***************************************************************************)
Questions == {<<>>, <<" ", " ">>, <<" ", "a">>}
Cookies == {"", "s1"}
Users == {1}
TgTexts == {<<"/">>, <<"/", "a">>, <<"H", "i">>, <<"a">>}
Answers == {<<"M", " ", "y">>}
Titles == {"t1"}
TickSteps == {SESSION_MAX_AGE, SESSION_MAX_AGE + 1}

\* the documents a retrieval can return: up to MaxDocs titles
RECURSIVE SeqsUpTo(_, _)
SeqsUpTo(S, n) ==
    IF n = 0 THEN {<<>>}
    ELSE LET shorter == SeqsUpTo(S, n - 1)
         IN shorter \cup {Append(s, x) : s \in shorter, x \in S}

DocLists == SeqsUpTo(Titles, MaxDocs)

NoBuild ==
    /\ bpc = "off" /\ texts = 0 /\ batch_size = BATCH_SIZE /\ db = {} /\ cur = 0
    /\ attempts = <<>>
    /\ bresult = [status |-> "none", chunk_count |-> 0, index |-> {}]

NoIngest ==
    /\ all_files = <<>> /\ files_to_process = <<>> /\ fidx = 0 /\ all_docs = <<>>
    /\ error_files = <<>> /\ chunk_store = {} /\ load_log = <<>>

NoMain ==
    /\ mpc = "off" /\ args = [direct_copy |-> FALSE, is_render |-> FALSE]
    /\ local_dir = NoDir /\ render_dir = NoDir /\ exit_code = 0 /\ cp = CopyIdle

NoExt ==
    /\ admin = NoAdmin /\ info = NoInfo /\ program = "main.py" /\ rb = NoRebuild
    /\ th = NoThreads /\ loaded = {} /\ call = NoCall

NoService ==
    /\ session_memories = <<>> /\ session_last_activity = <<>>
    /\ telegram_sessions = <<>> /\ vectorstore = "None" /\ now = 0
    /\ req = [p \in Procs |-> ReqIdle] /\ nreq = 0 /\ answered = <<>>

\* the service after start-up: empty session store (main.py:59-60), no index
\* loaded by the bot (telegram_bot.py:32)
Init ==
    /\ session_memories = <<>>
    /\ session_last_activity = <<>>
    /\ telegram_sessions = <<>>
    /\ vectorstore = "None"
    /\ now = 0
    /\ req = [p \in Procs |-> ReqIdle]
    /\ nreq = 0
    /\ answered = <<>>
    /\ NoBuild /\ NoIngest /\ NoMain /\ NoExt

\* the steps of a handler in flight
\* as: the answers a provider can give; fs, ps: the outcomes (TRUE: fine,
\* FALSE: raises) of the steps before and after the history is updated
AskSteps(as, fs, ps) ==
    \E p \in Procs :
        \/ ask_clean(p)
        \/ \E ok \in fs : ask_session(p, ok)
        \/ \E k1 \in fs, k2 \in fs : ask_keys(p, k1, k2)
        \/ \E ok \in fs : ask_embed_check(p, ok)
        \/ \E ok \in fs : ask_load(p, ok)
        \/ \E ok \in BOOLEAN, found \in DocLists : ask_retrieve(p, ok, found)
        \/ \E ok \in BOOLEAN, a \in as : ask_primary(p, ok, a)
        \/ \E ok \in BOOLEAN, a \in as : ask_secondary(p, ok, a)
        \/ ask_update(p)
        \/ \E ok \in ps : ask_respond(p, ok)
        \/ \E logok \in BOOLEAN : ask_except(p, logok)

TgSteps(as, fs, ps) ==
    \E p \in Procs :
        \/ \E o \in {"ok"} \cup {x \in {"delete"} : FALSE \in fs}
                          \cup {x \in {"reply"} : FALSE \in ps} :
              handle_message_greeting(p, o)
        \/ \E ok \in fs : handle_message_load(p, ok)
        \/ \E ok \in BOOLEAN, found \in DocLists, edited \in fs :
              handle_message_retrieve(p, ok, found, edited)
        \/ \E ok \in BOOLEAN, a \in as : handle_message_primary(p, ok, a)
        \/ \E ok \in BOOLEAN, a \in as : handle_message_secondary(p, ok, a)
        \/ handle_message_update(p)
        \/ \E ok \in ps : handle_message_respond(p, ok)
        \/ \E logok \in BOOLEAN : handle_message_except(p, logok)

\* one handler at a time: a request is taken when no handler is in flight
\* (ask is a coroutine without await; the bot handles one update at a time)
http_request(qs, cs, max) ==
    /\ Idle
    /\ nreq < max
    /\ \E q \in qs, cookie \in cs : ask_receive("http", q, cookie)

\* /clear-session between two requests
clear_session_request(cs) ==
    /\ Idle
    /\ \E cookie \in cs : clear_session(cookie)

telegram_message(us, ts, ss, max) ==
    /\ Idle
    /\ nreq < max
    /\ \E user \in us, text \in ts, sent \in ss :
          handle_message_receive("tg", user, text, sent)

Next ==
    \/ http_request(Questions, Cookies, MaxRequests)
    \/ telegram_message(Users, TgTexts, BOOLEAN, MaxRequests)
    \/ AskSteps(Answers, BOOLEAN, BOOLEAN)
    \/ TgSteps(Answers, BOOLEAN, BOOLEAN)
    \/ clear_session_request(Cookies)
    \/ \E user \in Users : start_command(user)
    \/ \E user \in Users : clear_command(user)
    \/ \E d \in TickSteps : Tick(d)

Spec == Init /\ [][Next]_vars

(***************************************************************************)
(* SpecHistory: long dialogues.  Each front end serves one session; the    *)
(* k-th question of a session is the text of k characters "a"; no clear    *)
(* command, no clock step, no failure after the history was updated.       *)
(* (a request that fails earlier is not answered and leaves no pair).      *)
(***************************************************************************)
Unary(k) == [i \in 1..k |-> "a"]

Asked(sid) == IF sid \in DOMAIN answered THEN Len(answered[sid]) + 1 ELSE 1

NextQuestion(sid) == Unary(Asked(sid))

\* every third message of the Telegram user is a greeting
NextMessage(sid) ==
    IF Asked(sid) % 3 = 0 THEN <<"h", "i", " ">> \o Unary(Asked(sid))
    ELSE Unary(Asked(sid))

InitHistory == NoService /\ NoBuild /\ NoIngest /\ NoMain /\ NoExt

NextHistory ==
    \/ http_request({<<>>, NextQuestion("s1")}, {"s1"}, MaxHistRequests)
    \/ telegram_message({1}, {<<"/">>, NextMessage("1")}, {TRUE}, MaxHistRequests)
    \/ AskSteps({<<"x">>}, BOOLEAN, {TRUE})
    \/ TgSteps({<<"x">>}, BOOLEAN, {TRUE})

SpecHistory == InitHistory /\ [][NextHistory]_vars

(***************************************************************************)
(* SpecBuild: build_index on 1 .. MaxChunks chunks                         *)
(***************************************************************************)
InitBuild ==
    /\ NoService
    /\ bpc = "first"
    /\ texts \in 1..MaxChunks
    /\ batch_size = BATCH_SIZE
    /\ db = {}
    /\ cur = 0
    /\ attempts = <<>>
    /\ bresult = [status |-> "none", chunk_count |-> 0, index |-> {}]
    /\ all_files = <<>> /\ files_to_process = <<>> /\ fidx = 0 /\ all_docs = <<>>
    /\ error_files = <<>> /\ load_log = <<>>
    /\ chunk_store = store_chunks(texts)
    /\ NoMain /\ NoExt

NextBuild ==
    \/ \E e \in {"ok"} \cup ErrKinds : build_first_batch(e)
    \/ \E e \in {"ok"} \cup ErrKinds : build_first_smaller(e)
    \/ \E e \in {"ok"} \cup ErrKinds : build_batch(e)
    \/ \E e \in {"ok"} \cup ErrKinds : build_batch_retry(e)
    \/ build_return

SpecBuild == InitBuild /\ [][NextBuild]_vars

(***************************************************************************)
(* SpecPipeline: one run of the script build_index_local.py (discovery,    *)
(* extraction, embedding, save, copy to /data), then GET /index-info of    *)
(* the service on the directories the run has left.                        *)
(***************************************************************************)
FilePool ==
    {File("a.txt", ".txt", 10, 2), File("b.pdf", ".pdf", 10, 1),
     File("c.exe", ".exe", 10, 1), File("e.html", ".html", 10, 0),
     File("big.docx", ".docx", MAX_FILE_SIZE + 1, 1)}

\* the numbers of chunks the splitter makes: one batch, two batches after
\* the fall-back to the smaller size, two batches of the normal size
SplitCounts == {1, SMALLER_BATCH_SIZE + 1, BATCH_SIZE + 1}

\* an index saved by an earlier run
OldIndexDir ==
    [exists |-> TRUE,
     files |-> [x \in {"index.faiss", "chunk_store.json", "index_metadata.json",
                       "processing_errors.json", "last_updated.txt", "README.md"} |->
                  saved_old(x)]]

Passwords == {"", "pw"}
Tokens == {"", "pw", sha256_hex("pw"), sha256_hex("other")}

InitPipeline ==
    /\ NoService /\ NoBuild /\ NoExt
    /\ all_files \in SeqsUpTo(FilePool, MaxFiles)
    /\ files_to_process = <<>> /\ fidx = 0 /\ all_docs = <<>>
    /\ error_files = <<>> /\ chunk_store = {} /\ load_log = <<>>
    /\ mpc = "start"
    /\ args \in [direct_copy : BOOLEAN, is_render : BOOLEAN]
    /\ local_dir \in {NoDir, OldIndexDir}
    /\ render_dir \in {NoDir, OldIndexDir}
    /\ exit_code = 0
    /\ cp = CopyIdle

\* the service is asked once the script has exited
index_info_after_run ==
    /\ mpc = "exit"
    /\ \E readable \in BOOLEAN : get_index_info(readable)

NextPipeline ==
    \/ \E api_key \in BOOLEAN : main_start(api_key)
    \/ build_discover
    \/ \E ok \in BOOLEAN : build_health(TRUE, ok)
    \/ \E e \in {"ok"} \cup LoadErrors : build_load_file(e)
    \/ \E n \in SplitCounts : build_split(n)
    \/ \E e \in {"ok"} \cup ErrKinds : build_first_batch(e)
    \/ \E e \in {"ok"} \cup ErrKinds : build_first_smaller(e)
    \/ \E e \in {"ok"} \cup ErrKinds : build_batch(e)
    \/ \E e \in {"ok"} \cup ErrKinds : build_batch_retry(e)
    \/ build_return
    \/ main_build_returned
    \/ \E k \in 0..7 : main_save(k)
    \/ \E ok \in BOOLEAN : copy_check_dir(ok)
    \/ copy_check_src
    \/ \E ok \in BOOLEAN : copy_lock(ok)
    \/ \E ok \in BOOLEAN : copy_item(ok)
    \/ \E k \in 0..2 : copy_stamp(k)
    \/ \E ok \in BOOLEAN : copy_unlock(ok)
    \/ main_copy_returned
    \/ index_info_after_run

SpecPipeline == InitPipeline /\ [][NextPipeline]_vars

(***************************************************************************)
(* The administration endpoints of the three versions of the service:      *)
(* main.py (POST /update-index and the copy it runs), static/old_main.py    *)
(* (POST /rebuild, the webhook, startup, load_vectorstore, the threads) and *)
(* original_local_code.py (POST /rebuild).  One version runs in a process.  *)
(***************************************************************************)
Programs == {"main.py", "static/old_main.py", "original_local_code.py"}

\* the index that is deployed with the service in ./index: two chunks, no
\* processing error
shipped(name) ==
    CASE name = "index.faiss" -> {0, 1}
      [] name = "chunk_store.json" -> {0, 1}
      [] name = "index_metadata.json" ->
            [document_count |-> 1, chunk_count |-> 2, error_count |-> 0]
      [] OTHER -> "text"

ShippedIndexDir ==
    [exists |-> TRUE,
     files |-> [x \in {"index.faiss", "chunk_store.json", "index_metadata.json",
                       "last_updated.txt", "README.md"} |-> shipped(x)]]

\* a marker an earlier process has left
LeftLock == [exists |-> TRUE, mtime |-> 0]

InitAdmin ==
    /\ NoService /\ NoBuild /\ NoIngest
    /\ admin = NoAdmin /\ info = NoInfo /\ th = NoThreads /\ loaded = {}
    /\ call = NoCall
    /\ mpc = "off" /\ args = [direct_copy |-> FALSE, is_render |-> FALSE]
    /\ exit_code = 0 /\ cp = CopyIdle
    /\ program \in Programs
    /\ IF program = "main.py"
       THEN /\ local_dir \in {NoDir, ShippedIndexDir}
            /\ render_dir \in {NoDir, OldIndexDir}
            /\ rb = NoRebuild
       ELSE /\ local_dir = NoDir /\ render_dir = NoDir
            /\ \E l \in {NoLock, LeftLock}, i \in BOOLEAN :
                  rb = [NoRebuild EXCEPT
                           !.lock = IF program = "static/old_main.py" THEN l ELSE NoLock,
                           !.index = i,
                           !.ev = IF program = "static/old_main.py"
                                  THEN [kind |-> "startup", pc |-> "lock"] ELSE EvIdle]

\* the ways _run_indexing_process returns early, and the ways it ends
WorkerReturns == {"download_failed", "missing_path", "no_files", "no_documents"}
WorkerEnds == {"returned", "success", "exception"}

\* hours pass while static/old_main.py runs
lock_ages ==
    /\ program = "static/old_main.py"
    /\ now < MaxLockTime
    /\ Tick(REBUILD_LOCK_AGE + 1)

NextAdmin ==
    \/ \E pw \in Passwords, token \in Tokens : update_index(pw, token)
    \/ update_index_returned
    \/ \E ok \in BOOLEAN : copy_check_dir(ok)
    \/ copy_check_src
    \/ \E deleted \in BOOLEAN : copy_clear(deleted)
    \/ \E ok \in BOOLEAN : copy_lock(ok)
    \/ \E ok \in BOOLEAN : copy_item(ok)
    \/ \E k \in 0..2 : copy_stamp(k)
    \/ \E ok \in BOOLEAN : copy_unlock(ok)
    \/ startup_check_lock
    \/ startup_check_index
    \/ startup_end
    \/ \E repo_ok \in BOOLEAN : github_webhook(repo_ok)
    \/ \E api_key \in BOOLEAN, load_ok \in BOOLEAN : old_load_vectorstore(api_key, load_ok)
    \/ old_load_vectorstore_returned
    \/ \E pw \in Passwords, token \in Tokens : rebuild_index(pw, token)
    \/ rebuild_index_returned
    \/ \E c \in Callers : build_combined_txt_check(c)
    \/ \E c \in Callers, ok \in BOOLEAN : build_combined_txt_lock(c, ok)
    \/ \E c \in Callers, ok \in BOOLEAN : build_combined_txt_start(c, ok)
    \/ \E path \in WorkerReturns, built \in BOOLEAN : run_indexing_process_return(path, built)
    \/ \E path \in WorkerEnds, built \in BOOLEAN : run_indexing_process_end(path, built)
    \/ lock_ages
    \/ \E pw \in Passwords, token \in Tokens, ok \in BOOLEAN :
          original_rebuild_index(pw, token, ok)

SpecAdmin == InitAdmin /\ [][NextAdmin]_vars

(***************************************************************************)
(* Two threads of original_local_code.py, one session each                 *)
(***************************************************************************)
\* the history of a session that exists when the requests arrive
OldHistory == <<<<<<"o">>, <<"M", " ", "y">>>>>>

\* the session store when the requests arrive, a day and a second after
\* the start: a session is absent, too old, or recent
StoredSessions ==
    {f \in [{"s1", "s2"} -> {"absent", "old", "recent"}] : TRUE}

InitThreads ==
    /\ telegram_sessions = <<>> /\ vectorstore = "None"
    /\ req = [p \in Procs |-> ReqIdle] /\ nreq = 0 /\ answered = <<>>
    /\ now = SESSION_MAX_AGE + 1
    /\ \E f \in StoredSessions :
          /\ session_memories = [s \in {x \in DOMAIN f : f[x] # "absent"} |-> OldHistory]
          /\ session_last_activity = [s \in {x \in DOMAIN f : f[x] # "absent"} |->
                                         IF f[s] = "old" THEN 0 ELSE now]
    /\ NoBuild /\ NoIngest /\ NoMain
    /\ admin = NoAdmin /\ info = NoInfo /\ rb = NoRebuild /\ th = NoThreads
    /\ loaded = {} /\ call = NoCall
    /\ program = "original_local_code.py"

NextThreads ==
    \/ \E t \in PoolThreads : thread_ask(t, <<"a">>)
    \/ \E t \in PoolThreads : thread_scan(t)
    \/ \E t \in PoolThreads : thread_delete(t)
    \/ \E t \in PoolThreads : thread_session(t)
    \/ \E t \in PoolThreads, ok \in BOOLEAN, answer \in Answers : thread_answer(t, ok, answer)
    \/ \E t \in PoolThreads : thread_append(t)

SpecThreads == InitThreads /\ [][NextThreads]_vars

(***************************************************************************)
(* SpecRace: /clear-session on a pool thread beside /ask on the event      *)
(* loop.  The assignment of clear_session is one step (the interpreter     *)
(* lock), taken between any two steps of ask                               *)
(***************************************************************************)
NextRace ==
    \/ http_request(Questions, Cookies, MaxRequests)
    \/ AskSteps(Answers, BOOLEAN, BOOLEAN)
    \/ \E cookie \in Cookies : clear_session(cookie)

SpecRace == Init /\ [][NextRace]_vars

(***************************************************************************)
(* extract_title on texts of up to MaxLines lines                          *)
(***************************************************************************)
Fill(c, n) == [i \in 1..n |-> c]

Zakon == <<"z", "a", "k", "o", "n">>

\* lines around the limits of the function: short, with a keyword of 10, 11
\* and more characters, in lower, mixed and upper case, padded with
\* whitespace, long of 20, 21 and 101 characters
TitleLines ==
    {<<>>,
     Fill("x", 5),
     Zakon \o Fill("x", 5),
     Zakon \o Fill("x", 6),
     <<"Z", "a", "K", "o", "N">> \o Fill("y", 6),
     <<"M", "S", "F", "O">> \o Fill("y", 30),
     <<" ", " ">> \o Zakon \o Fill("x", 4) \o <<" ", " ">>,
     <<" ">> \o Zakon \o Fill("x", 6) \o <<" ">>,
     Fill("x", 20),
     Fill("y", 21),
     Fill("x", 100) \o <<"y">>,
     <<" ", " ">> \o Fill("x", 19)}

\* a text of MaxLines lines: line a at place i, line b at place j, line c at
\* the end, short lines elsewhere
TextWith(i, a, j, b, c) ==
    [k \in 1..MaxLines |-> IF k = i THEN a ELSE IF k = j THEN b
                           ELSE IF k = MaxLines THEN c ELSE Fill("x", 5)]

TitleTexts ==
    SeqsUpTo(TitleLines, 2)
       \cup {TextWith(i, a, j, b, c) :
                i \in 1..MaxLines, j \in 1..MaxLines, a \in TitleLines, b \in TitleLines,
                c \in {Fill("x", 5), Zakon \o Fill("y", 7)}}

InitTitle ==
    /\ NoService /\ NoBuild /\ NoIngest /\ NoMain
    /\ admin = NoAdmin /\ info = NoInfo /\ program = "main.py" /\ rb = NoRebuild
    /\ th = NoThreads /\ loaded = {}
    /\ \E text \in TitleTexts :
          call = [fn |-> "extract_title", text |-> text, filename |-> <<"f">>,
                  result |-> <<>>, pc |-> "args"]

NextTitle == title_extract

SpecTitle == InitTitle /\ [][NextTitle]_vars

(***************************************************************************)
(* The messages of answers of up to MaxParts parts                         *)
(***************************************************************************)
\* the answer of n characters: the decimal digits in turn
AnswerOf(n) == [i \in 1..n |-> Digits[(i % 10) + 1]]

\* short answers and answers around the multiples of the message limit
AnswerLengths ==
    (1..50) \cup {k * MAX_MESSAGE_LENGTH + d : k \in 1..MaxParts, d \in {-1, 0, 1}}

InitReply ==
    /\ NoService /\ NoBuild /\ NoIngest /\ NoMain
    /\ admin = NoAdmin /\ info = NoInfo /\ program = "main.py" /\ rb = NoRebuild
    /\ th = NoThreads /\ loaded = {}
    /\ \E n \in AnswerLengths :
          call = [fn |-> "reply_texts", text |-> AnswerOf(n), filename |-> <<>>,
                  result |-> <<>>, pc |-> "args"]

NextReply == answer_reply

SpecReply == InitReply /\ [][NextReply]_vars

(***************************************************************************)
(* Properties                                                              *)
(***************************************************************************)
Called(r, api) == \E i \in 1..Len(r.calls) : r.calls[i].api = api

Failed(r, api) == \E i \in 1..Len(r.calls) : r.calls[i].api = api /\ ~r.calls[i].ok

BothProvidersFailed(r) == Failed(r, "primary") /\ Failed(r, "secondary")

\* the request stopped before retrieval
EndedBeforeRetrieval(r) ==
    \/ Failed(r, "session") \/ Failed(r, "keys")
    \/ Failed(r, "embed_query") \/ Failed(r, "load_vectorstore")

\* an exception outside the inner try blocks, after retrieval
RaisedLater(r) == Failed(r, "respond") \/ Failed(r, "edit_text")

\* the question is empty or consists of whitespace
WhitespaceOnly(q) == \A i \in 1..Len(q) : q[i] = " "

\* the last pair of the stored history of the session of r is (q, answer) of r
PairStored(r) ==
    /\ r.sid \in DOMAIN session_memories
    /\ session_memories[r.sid] # <<>>
    /\ session_memories[r.sid][Len(session_memories[r.sid])] = <<r.q, r.answer>>

NormalResponse(r) == r.resp.kind = "answer" /\ r.resp.status = 200

\* C1: when no request of a session is in flight, the stored history of
\* the session is the most recent min(n, 15) of the n pairs answered on it
\* since it was created or cleared, in the order they were answered.
C1_HistoryIsMostRecentPairs ==
    \A s \in DOMAIN session_memories :
        (\A p \in Procs : InFlight(p) => req[p].sid # s)
            => /\ s \in DOMAIN answered
               /\ Len(session_memories[s]) =
                     IF Len(answered[s]) < 15 THEN Len(answered[s]) ELSE 15
               /\ \A i \in 1..Len(session_memories[s]) :
                     session_memories[s][i] =
                        answered[s][Len(answered[s]) - Len(session_memories[s]) + i]

\* C1 witness: the 16th pair of a session was stored and the oldest dropped
C1_Witness ==
    /\ Idle
    /\ "s1" \in DOMAIN session_memories
    /\ Len(answered["s1"]) = 16
    /\ Len(session_memories["s1"]) = 15
    /\ session_memories["s1"][1] = answered["s1"][2]

\* C2: in /ask the secondary provider is called if and only if the call of
\* the primary provider raised, with the same prompt; when both raise the
\* handler returns the fixed error response of the language-model service.
C2_SecondaryIffPrimaryRaised ==
    LET r == req["http"]
    IN /\ Called(r, "secondary") => Failed(r, "primary")
       /\ (r.pc = "done" /\ Failed(r, "primary")) => Called(r, "secondary")
       /\ Called(r, "secondary") => Len(r.sent) = 2 /\ r.sent[2] = r.sent[1]
       /\ (r.pc = "done" /\ BothProvidersFailed(r)) => r.resp = Resp("llm_error", 500)

\* C2 witness: both providers raised and /ask answered with the error response
C2_Witness ==
    /\ req["http"].pc = "done"
    /\ BothProvidersFailed(req["http"])
    /\ Len(req["http"].sent) = 2
    /\ req["http"].resp.kind = "llm_error"

\* C3: whatever steps of /ask fail, the handler returns a response: no
\* exception leaves the handler.
C3_NoExceptionLeavesAsk == req["http"].resp.kind # "exception"

\* C4: for a non-empty question whose session was resolved, retrieval and
\* generation are reached whatever failed before, and the response is an
\* error only when both providers failed; otherwise the session is updated
\* and the response is normal.
C4_OnlyGenerationFailureEndsInError ==
    LET r == req["http"]
    IN (r.pc = "done" /\ ~WhitespaceOnly(r.q) /\ Called(r, "session") /\ ~Failed(r, "session"))
          => /\ Called(r, "retrieve")
             /\ Called(r, "primary")
             /\ IF BothProvidersFailed(r)
                THEN r.resp.status = 500
                ELSE NormalResponse(r) /\ PairStored(r)

\* C4 as amended: for a non-empty question, a failure of retrieval does not
\* end the request, a missing API key, a failed embedding check and a failed
\* index load do; the response is normal and the session updated exactly
\* when none of these happened, not both providers failed and no other
\* exception was raised.
C4_ErrorCausesOfAsk ==
    LET r == req["http"]
    IN (r.pc = "done" /\ ~WhitespaceOnly(r.q))
          => /\ EndedBeforeRetrieval(r)
                   => ~Called(r, "retrieve") /\ ~Called(r, "primary") /\ ~Called(r, "update")
             /\ ~EndedBeforeRetrieval(r) => Called(r, "retrieve") /\ Called(r, "primary")
             /\ (Failed(r, "load_vectorstore") => r.resp = Resp("index_error", 500))
             /\ (Failed(r, "embed_query") => r.resp = Resp("embed_error", 500))
             /\ (Failed(r, "keys") => r.resp.status = 500)
             /\ (BothProvidersFailed(r) => r.resp = Resp("llm_error", 500))
             /\ IF EndedBeforeRetrieval(r) \/ BothProvidersFailed(r) \/ RaisedLater(r)
                THEN ~NormalResponse(r)
                ELSE NormalResponse(r) /\ PairStored(r)

\* C4 witness: the index load failed and /ask ended with the error response
C4_Witness ==
    /\ req["http"].pc = "done"
    /\ Failed(req["http"], "load_vectorstore")
    /\ req["http"].resp.kind = "index_error"
    /\ ~Called(req["http"], "retrieve")

C6_BlankQuestionShortCircuits ==
    [][(nreq' = nreq + 1 /\ req'["http"].pc # "idle" /\ WhitespaceOnly(req'["http"].q))
          => /\ req'["http"].pc = "done"
             /\ req'["http"].resp = Resp("prompt_input", 200)
             /\ req'["http"].calls = <<>>
             /\ UNCHANGED <<session_memories, session_last_activity,
                            telegram_sessions, vectorstore>>]_vars

\* C6 witness: a whitespace-only question was answered with the prompt for
\* input while an expired session stays in the store
C6_Witness ==
    /\ req["http"].pc = "done"
    /\ req["http"].q = <<" ", " ">>
    /\ req["http"].resp.kind = "prompt_input"
    /\ \E s \in DOMAIN session_last_activity :
          now - session_last_activity[s] > 86400

\* C7: a cleanup pass at time now removes from both mappings every session
\* whose last activity is more than 86400 seconds old and leaves the history
\* and the timestamp of every other session unchanged (the pass of /ask;
\* the pass of the Telegram handler, for the sessions other than the one
\* the handler has just refreshed).
C7_CleanupPass ==
    [][\A s \in (DOMAIN session_memories) \cup (DOMAIN session_last_activity) :
          (\/ req["http"].pc = "clean" /\ req'["http"].pc = "session"
           \/ nreq' = nreq + 1 /\ req'["tg"].sid # "" /\ req'["tg"].sid # s)
             => IF s \in DOMAIN session_last_activity
                   /\ now - session_last_activity[s] > 86400
                THEN s \notin DOMAIN session_memories'
                     /\ s \notin DOMAIN session_last_activity'
                ELSE /\ s \in DOMAIN session_memories
                        => s \in DOMAIN session_memories'
                           /\ session_memories'[s] = session_memories[s]
                     /\ s \in DOMAIN session_last_activity
                        => s \in DOMAIN session_last_activity'
                           /\ session_last_activity'[s] = session_last_activity[s]]_vars

\* C7 witness: a pass has removed a session and kept another one, with its
\* history, whose last activity is exactly 86400 seconds old
C7_Witness ==
    /\ req["http"].pc = "session"
    /\ req["http"].cleaned # {}
    /\ \E s \in DOMAIN session_memories :
          /\ session_memories[s] # <<>>
          /\ now - session_last_activity[s] = 86400

\* C8: on both front ends, a question for a session whose last activity is
\* more than 24 hours old is answered from an empty history: the prompt sent
\* to the provider has no dialog.
C8_StaleHistoryNotUsed ==
    \A p \in Procs :
        (req[p].stale /\ req[p].sent # <<>>) => req[p].sent[1].dialog = <<>>

SameBatch(a, b) == a.lo = b.lo /\ a.hi = b.hi

\* C9: a batch whose embedding fails with a rate-limit error is attempted
\* once more, after the backoff; a batch that fails with another error, or
\* whose retry fails, is skipped and the build goes on; no batch is
\* attempted more than twice.
C9_RetryPolicy ==
    /\ \A i \in 1..Len(attempts) :
          Cardinality({j \in 1..Len(attempts) : SameBatch(attempts[j], attempts[i])}) <= 2
    /\ \A i \in 1..Len(attempts) :
          /\ (is_rate_limit(attempts[i].e) /\ ~attempts[i].backoff /\ i < Len(attempts))
                => SameBatch(attempts[i + 1], attempts[i]) /\ attempts[i + 1].backoff
          /\ (attempts[i].e # "ok" /\ (~is_rate_limit(attempts[i].e) \/ attempts[i].backoff))
                => /\ \A j \in (i + 1)..Len(attempts) : ~SameBatch(attempts[j], attempts[i])
                   /\ bresult.status # "raised"

\* the chunks of the batches whose embedding succeeded
EmbeddedChunks ==
    UNION {Slice(attempts[i].lo, attempts[i].hi) :
              i \in {j \in 1..Len(attempts) : attempts[j].e = "ok"}}

\* C10: whatever embedding calls fail, of the first batch too, build_index
\* ends by returning a result whose index holds the chunks of the batches
\* that succeeded.
C10_BuildNeverAborts ==
    bpc = "done" => bresult.status = "returned" /\ bresult.index = EmbeddedChunks

\* the positions of build_index after the health check
InExtraction == bpc \in {"files", "first", "first_smaller", "loop", "retry", "done"} /\ fidx >= 1

\* the files processed so far whose loader raised, in order
FailedFiles ==
    SelectSeq([i \in 1..Len(load_log) |-> i], LAMBDA i : load_log[i] # "ok")

\* C11: whatever loaders raise, the error list is the list of (name, message)
\* of the failing files, one entry each, in order; a failing file has no
\* page in all_docs and every other file has all its pages, once, in order;
\* the loop ends only after the last file, and the build returns None at
\* that point only when no page at all was extracted.
C11_FailingFilesAreIsolated ==
    InExtraction =>
       /\ error_files = [j \in 1..Len(FailedFiles) |->
                           <<files_to_process[FailedFiles[j]].name, load_log[FailedFiles[j]]>>]
       /\ \A i \in 1..Len(load_log) :
             {d[2] : d \in {x \in Range(all_docs) : x[1] = i}} =
                IF load_log[i] = "ok" THEN 1..files_to_process[i].pages ELSE {}
       /\ \A a, b \in 1..Len(all_docs) :
             a < b => \/ all_docs[a][1] < all_docs[b][1]
                      \/ all_docs[a][1] = all_docs[b][1] /\ all_docs[a][2] < all_docs[b][2]
       /\ bpc # "files" => fidx = Len(files_to_process) + 1
       /\ (bpc = "done" /\ bresult.status = "none") => all_docs = <<>>

\* C11 witness: the loader of the first file raised, the second file gave
\* its pages and the build went on to the embedding
C11_Witness ==
    /\ bpc = "first"
    /\ Len(load_log) = 2 /\ load_log[1] # "ok" /\ load_log[2] = "ok"
    /\ Len(error_files) = 1
    /\ all_docs # <<>>

\* C12: in every result build_index returns, whatever batches failed, were
\* retried or skipped, the chunk ids of the index are ids of the chunk store.
C12_IndexedChunksAreStored ==
    bresult.status = "returned" => bresult.index \subseteq chunk_store

\* C12 witness: a result whose index lacks a skipped batch and holds the
\* last chunk
C12_Witness ==
    /\ bpc = "done"
    /\ bresult.status = "returned"
    /\ bresult.index # chunk_store
    /\ (texts - 1) \in bresult.index

\* C13: after a build that was saved and copied to /data, /index-info
\* reports (when it can read the files) the chunk_count of the result of
\* the build, which is the chunk_count of index_metadata.json and the number
\* of entries of chunk_store.json, in ./index and in /data.
C13_IndexInfoChunkCount ==
    (mpc = "exit" /\ exit_code = 0 /\ cp.ret = "True" /\ info.status = "success") =>
       /\ info.readable => info.chunk_count = {bresult.chunk_count}
       /\ info.readable =>
             \E m \in info.metadata : m.chunk_count = bresult.chunk_count
       /\ \A dir \in {local_dir, render_dir} :
             /\ dir.files["index_metadata.json"].chunk_count = bresult.chunk_count
             /\ Cardinality(dir.files["chunk_store.json"]) = bresult.chunk_count

\* C13 witness: /index-info has answered after a copied build in which a
\* batch was skipped
C13_Witness ==
    /\ mpc = "exit" /\ exit_code = 0 /\ cp.ret = "True"
    /\ info.readable
    /\ info.chunk_count = {BATCH_SIZE + 1}
    /\ bresult.index # chunk_store

\* C14: build_index returns None when no supported file is discovered, when
\* the health check of the embedding API fails and when no page is
\* extracted; main then exits with code 1 without saving and without
\* copying: ./index and /data are as they were.
C14_NoResultNoSave ==
    /\ (bpc = "done" /\ (files_to_process = <<>> \/ fidx = 0 \/ all_docs = <<>>))
          => bresult.status = "none"
    /\ (mpc = "exit" /\ bresult.status = "none")
          => /\ exit_code = 1
             /\ cp = CopyIdle
             /\ local_dir \in {NoDir, OldIndexDir}
             /\ render_dir \in {NoDir, OldIndexDir}

\* C14 witness: every loader raised, main has exited with code 1 and the
\* index saved earlier is in place
C14_Witness ==
    /\ mpc = "exit" /\ exit_code = 1
    /\ bresult.status = "none"
    /\ error_files # <<>>
    /\ local_dir = OldIndexDir

\* C16: in every copy the lock marker is written before the first file of
\* the index is written to the destination, and once the copy has returned,
\* True or False, the destination holds no lock marker.
C16_LockMarkerAroundCopy ==
    /\ \A i \in 1..Len(cp.log) :
          cp.log[i] \notin {"lock", "unlock", "clear"}
             => \E j \in 1..(i - 1) : cp.log[j] = "lock"
    /\ cp.pc = "done" => ~has_file(render_dir, lock_name(cp.fn))


\* C15: at most one indexing worker runs at any time, as long as no marker
\* was removed for its age: whatever entry point a rebuild is asked through
\* and however the handlers, the threads and the workers interleave, a
\* second worker is not started while one is running.
C15_AtMostOneBuild == ~rb.stale_cleared => rb.running <= 1


\* a request to POST /rebuild or POST /update-index is taken in this step
AdminRequest == admin'.turn # admin.turn

\* the step starts a copy, a call of build_combined_txt or a rebuild
AdminStarts ==
    \/ cp' # cp
    \/ rb'.bct[0].pc = "check"
    \/ rb'.rebuilds # rb.rebuilds

\* the step changes a file: the index directories, the marker, the index
AdminChangesFiles ==
    \/ local_dir' # local_dir
    \/ render_dir' # render_dir
    \/ rb'.lock # rb.lock
    \/ rb'.index # rb.index

\* C17: POST /rebuild and POST /update-index start a rebuild or a copy only
\* when the admin_token header is the SHA-256 hex digest of the configured
\* admin password; without a configured password the answer is 500, with a
\* missing or different token it is 403, and in both cases nothing is
\* started and no file is changed.
C17_AdminTokenGuardsRebuild ==
    [][AdminRequest =>
          LET pw == admin'.admin_password
              token == admin'.admin_token
          IN /\ AdminStarts => pw # "" /\ token = sha256_hex(pw)
             /\ pw = "" => admin'.status = 500 /\ ~AdminStarts /\ ~AdminChangesFiles
             /\ (pw # "" /\ token # sha256_hex(pw))
                   => admin'.status = 403 /\ ~AdminStarts /\ ~AdminChangesFiles]_vars


\* the request of thread t is past the resolution of its session and has
\* not returned
ThreadInFlight(t) == th[t].pc \in {"answer", "append"}

\* C18: two question requests for different session ids that run at the
\* same time do not interfere: a request whose own index, retrieval and
\* generation did not fail returns a normal response and leaves the history
\* it would leave alone, and while a request is in flight the history and
\* the last activity of its session are not removed.
C18_SessionsDoNotInterfere ==
    \A t \in PoolThreads :
        /\ ThreadInFlight(t)
              => /\ th[t].sid \in DOMAIN session_memories
                 /\ th[t].sid \in DOMAIN session_last_activity
        /\ (th[t].pc = "done" /\ ~th[t].failed)
              => /\ th[t].resp = 200
                 /\ th[t].sid \in DOMAIN session_memories
                 /\ session_memories[th[t].sid]
                       = append_truncate(th[t].alone, <<th[t].q, th[t].answer>>)



\* load_vectorstore returns an index to handler p in this step
IndexLoaded(p) ==
    req'[p].calls = Append(req[p].calls, [api |-> "load_vectorstore", ok |-> TRUE])

\* C19: the index is loaded at most once in a process: a request loads it
\* only when no earlier request of the process has loaded it, every later
\* request uses the index that is already loaded.
C19_IndexLoadedOnce ==
    [][\A p \in Procs : IndexLoaded(p) => p \notin loaded]_vars



\* the search query the claim describes for history h and question q
QueryOf(h, q) ==
    IF Len(h) = 0 THEN q
    ELSE IF Len(h) = 1 THEN h[1][1] \o <<" ">> \o q
    ELSE h[Len(h) - 1][1] \o <<" ">> \o h[Len(h)][1] \o <<" ">> \o q

\* C20: the search query of a question is the questions of the last two
\* pairs of the history (of the only pair when there is one), oldest first,
\* joined by single spaces, then a space and the current question; with an
\* empty history it is the current question alone; every prompt sent for
\* generation carries the current question as it was received.
C20_SearchQueryAndPrompt ==
    \A p \in Procs :
        LET r == req[p]
        IN Called(r, "retrieve")
              => /\ r.query = QueryOf(r.chat_history, r.q)
                 /\ \A i \in 1..Len(r.sent) : r.sent[i].q = r.q

\* C20 witness: a question asked with more than two pairs in the history
\* was sent for generation with a search query longer than the question
C20_Witness ==
    \E p \in Procs :
        /\ Called(req[p], "retrieve")
        /\ Len(req[p].chat_history) > 2
        /\ req[p].sent # <<>>
        /\ req[p].sent[1].q = req[p].q
        /\ Len(req[p].query) > Len(req[p].q)



\* the line has a keyword, in any case of the letters
HasKeyword(line) ==
    \E kw \in title_keywords :
        \E off \in 0..(Len(line) - Len(kw)) :
            \A n \in 1..Len(kw) : upper_char(line[off + n]) = kw[n]

\* t is the title the priority order gives for the candidate lines ls
TitleByPriority(ls, filename, t) ==
    LET K == {i \in 1..Len(ls) : Len(ls[i]) > 10 /\ HasKeyword(ls[i])}
        L == {i \in 1..Len(ls) : Len(ls[i]) > 20}
    IN \/ \E i \in K : /\ \A j \in K : i <= j
                       /\ t = ls[i] \o <<" ", "(">> \o filename \o <<")">>
       \/ /\ K = {}
          /\ \E i \in L : /\ \A j \in L : i <= j
                          /\ t = SubSeq(ls[i], 1, IF Len(ls[i]) < 100 THEN Len(ls[i]) ELSE 100)
                                    \o <<".", ".", ".", " ", "(">> \o filename \o <<")">>
       \/ /\ K = {} /\ L = {}
          /\ t = <<"D", "o", "c", ":", " ">> \o filename

\* the first 10 lines of the text of the call
CandidateLines ==
    SubSeq(call.text, 1, IF Len(call.text) < 10 THEN Len(call.text) ELSE 10)

\* C21: extract_title returns the first of the first 10 lines that is longer
\* than 10 characters and has a keyword, followed by the filename in
\* parentheses; otherwise the first of these lines longer than 20
\* characters, cut to 100 characters, followed by '... (filename)';
\* otherwise the filename fallback; the lines are taken as they are in the
\* text.
C21_TitlePriority ==
    call.pc = "done" => TitleByPriority(CandidateLines, call.filename, call.result)

\* C21 as amended: the same order, on the first 10 lines with the
\* whitespace at their ends removed: the lengths are those of the stripped
\* lines and the title carries the stripped line.
C21_TitlePriorityStripped ==
    call.pc = "done"
       => TitleByPriority([i \in 1..Len(CandidateLines) |-> strip(CandidateLines[i])],
                          call.filename, call.result)

\* C21 witness: a line of more than 20 characters comes before the first
\* keyword line, a keyword line comes after the 10th, and the title is the
\* keyword line among the first 10
C21_Witness ==
    /\ call.pc = "done"
    /\ Len(call.text) > 10
    /\ HasKeyword(call.text[Len(call.text)])
    /\ \E i \in 1..10, j \in 1..10 :
          /\ i < j
          /\ Len(strip(call.text[i])) > 20
          /\ ~HasKeyword(call.text[i])
          /\ HasKeyword(call.text[j])
          /\ call.result = strip(call.text[j]) \o <<" ", "(">> \o call.filename \o <<")">>

\* save_index_to_directory is left, by return or by an exception
SaveEnds == mpc = "save" /\ mpc' # "save"

\* the files save_index_to_directory has written or left as they would be
\* written: those that hold what the build saves
HoldsBuild(dir) ==
    {x \in DOMAIN dir.files : dir.files[x] = saved_content(x)}

\* C22: save_index_to_directory writes the vector index and the chunk store
\* before the error list, the timestamp and the summary, and removes
\* nothing when a write fails: when it is left, every file of the directory
\* holds what it held before or what the build saves, no file is gone, and
\* if the error list, the timestamp or the summary was written, then the
\* index and the chunk store hold what the build saves.
C22_SaveOrderNoRollback ==
    [][SaveEnds =>
          /\ DOMAIN local_dir.files \subseteq DOMAIN local_dir'.files
          /\ \A x \in DOMAIN local_dir'.files :
                \/ x \in DOMAIN local_dir.files /\ local_dir'.files[x] = local_dir.files[x]
                \/ local_dir'.files[x] = saved_content(x)
          /\ (\E x \in {"processing_errors.json", "last_updated.txt", "README.md"} :
                 /\ x \in HoldsBuild(local_dir')
                 /\ x \notin HoldsBuild(local_dir))
                => {"index.faiss", "chunk_store.json"} \subseteq HoldsBuild(local_dir')]_vars

\* C22 witness: the save into a new directory failed at the timestamp: the
\* index, the chunk store, the metadata and the error list are in place
C22_Witness ==
    /\ mpc = "exit" /\ exit_code = 1
    /\ {"index.faiss", "chunk_store.json", "index_metadata.json",
        "processing_errors.json"} \subseteq HoldsBuild(local_dir)
    /\ "last_updated.txt" \notin DOMAIN local_dir.files

\* /clear-session has returned in this step
ClearReturns ==
    /\ req'["clear"] # req["clear"]
    /\ req'["clear"].pc = "done"

\* C23: /clear-session with the id of a session of the store sets the
\* history of that session to the empty list and changes no other history
\* and no last-activity timestamp; with a missing or unknown id it returns
\* the error status and changes nothing.
C23_ClearSessionFrame ==
    [][ClearReturns =>
          LET sid == req'["clear"].cookie
          IN IF sid # "" /\ sid \in DOMAIN session_memories
             THEN /\ req'["clear"].resp.kind = "clear_success"
                  /\ session_memories' = [session_memories EXCEPT ![sid] = <<>>]
                  /\ UNCHANGED <<session_last_activity, telegram_sessions>>
             ELSE /\ req'["clear"].resp.kind = "clear_error"
                  /\ UNCHANGED <<session_memories, session_last_activity,
                                 telegram_sessions>>]_vars

\* C23 witness: a session was cleared some time after its last activity
\* while another session keeps its history
C23_Witness ==
    /\ req["clear"].resp.kind = "clear_success"
    /\ session_memories[req["clear"].cookie] = <<>>
    /\ session_last_activity[req["clear"].cookie] < now
    /\ \E s \in DOMAIN session_memories : session_memories[s] # <<>>

\* the concatenation of the texts
RECURSIVE Concat(_)
Concat(ss) == IF ss = <<>> THEN <<>> ELSE Head(ss) \o Concat(Tail(ss))

\* C24: every message sent for an answer has at most 4096 characters, and
\* the messages in the order they are sent concatenate to the answer.
C24_MessagesWithinLimit ==
    (call.fn = "reply_texts" /\ call.pc = "done")
       => /\ \A i \in 1..Len(call.result) : Len(call.result[i]) <= 4096
          /\ Concat(call.result) = call.text

\* C25: a non-empty /ask request that ends in an error response appends
\* nothing to a history: when it has returned, the history of its session
\* is the one the request found (empty if it created the session).
C25_ErrorAppendsNothing ==
    LET r == req["http"]
    IN (r.pc = "done" /\ ~WhitespaceOnly(r.q) /\ r.resp.status = 500
           /\ Called(r, "session") /\ ~Failed(r, "session"))
          => /\ r.sid \in DOMAIN session_memories
             /\ session_memories[r.sid] = r.chat_history

\* C26: once a clear of a session has completed, the history of the session
\* holds only pairs whose questions were received after the clear: as long
\* as no question was received since the clear (its response is the last
\* one), the history is empty, also when a question for the session was
\* being answered at the moment of the clear.
C26_ClearedStaysCleared ==
    (req["clear"].pc = "done" /\ req["clear"].resp.kind = "clear_success")
       => session_memories[req["clear"].cookie] = <<>>

\* a worker has ended in this step (not: the process has ended at startup)
WorkerEnded == rb'.running < rb.running /\ rb'.ev = rb.ev

\* /rebuild with an accepted token is taken while there is no marker
RebuildWithoutMarker ==
    /\ rb'.n = rb.n + 1
    /\ admin'.turn # admin.turn
    /\ admin'.ep = "rebuild"
    /\ admin'.status \notin {403, 500}
    /\ ~is_index_building(rb)

C28_StorageKeepsIndex ==
    [][has_file(render_dir, "index.faiss")
          => \/ has_file(render_dir', "index.faiss")
             \/ has_file(render_dir', lock_name("storage"))]_vars

\* the attempts that belong to the batches of the build: all but the
\* attempt on the first 50 chunks that failed and was followed by the
\* attempt on the first 20
BatchAttempts ==
    {i \in 1..Len(attempts) : ~(i = 1 /\ attempts[1].e # "ok")}

\* the batches of the build, as pairs of the first chunk and the end
Batches == {<<attempts[i].lo, attempts[i].hi>> : i \in BatchAttempts}

\* no batch after the first has failed
LaterBatchesEmbedded == \A i \in BatchAttempts : attempts[i].lo > 0 => attempts[i].e = "ok"

\* C29: when build_index has returned, its batches partition the chunk
\* list: every chunk belongs to exactly one batch, the batches follow the
\* chunk order without a gap, also after the fallback of the batch size
\* from 50 to 20; when no batch after the first has failed, every chunk was
\* embedded by exactly one successful call and the index holds every chunk.
C29_BatchesPartitionChunks ==
    (bpc = "done" /\ bresult.status = "returned")
       => /\ \A c \in 0..(texts - 1) :
                Cardinality({b \in Batches : b[1] <= c /\ c < b[2]}) = 1
          /\ \A i \in BatchAttempts, j \in BatchAttempts :
                (j = i + 1) => \/ attempts[j].lo = attempts[i].hi
                               \/ SameBatch(attempts[j], attempts[i])
          /\ \A b \in Batches : b[1] < b[2] /\ b[2] <= texts
          /\ LaterBatchesEmbedded
                => /\ \A c \in 0..(texts - 1) :
                         Cardinality({i \in 1..Len(attempts) :
                                         /\ attempts[i].e = "ok"
                                         /\ attempts[i].lo <= c /\ c < attempts[i].hi}) = 1
                   /\ bresult.index = 0..(texts - 1)

\* C29 witness: the first batch failed with 50 chunks, the build went on
\* with batches of 20, no later batch failed and the index holds the more
\* than 60 chunks
C29_Witness ==
    /\ bpc = "done" /\ bresult.status = "returned"
    /\ attempts[1].e # "ok"
    /\ batch_size = 20
    /\ texts > 60
    /\ LaterBatchesEmbedded
    /\ Cardinality(bresult.index) = texts

\* C30: after a build was saved to a directory, also one that holds an
\* earlier build, processing_errors.json exists in the directory if and
\* only if the build that was saved had a failed file, and then it holds
\* the error list of that build.
C30_ErrorListOfLastBuild ==
    (mpc = "exit" /\ exit_code = 0 /\ bresult.status = "returned")
       => /\ has_file(local_dir, "processing_errors.json") <=> error_files # <<>>
          /\ has_file(local_dir, "processing_errors.json")
                => local_dir.files["processing_errors.json"] = error_files

====
